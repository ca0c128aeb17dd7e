---------------------------- MODULE NodeLocking ----------------------------
(***************************************************************************)
(* The locks of the fusenodes, core/10.5/fusefs/fuse_locking.c, and the    *)
(* vnode operations that take them, fuse_biglock_vnops.[ch]: every         *)
(* operation locks the one, two or four nodes it is given, then the big    *)
(* lock of the mount, runs, and releases them all.  Paging, reclaiming and *)
(* revoking take the big lock alone.                                       *)
(*                                                                         *)
(* A node is its address, a positive integer, because addresses break the  *)
(* ties in the lock order; 0 is the null pointer.  parent is parent_nodeid:*)
(* the directory through which the node was first looked up, which nothing *)
(* updates afterwards.  links is the daemon's own idea of which            *)
(* directories a node is in, and changes with every rename.                *)
(*                                                                         *)
(* C_NOEXISTS is never set, so fusefs_lock does not fail and its callers'  *)
(* error paths are never taken.  All locks here are exclusive.             *)
(***************************************************************************)
EXTENDS Integers, Sequences, FiniteSets

CONSTANTS
  Threads,          (* Threads in vnode operations.                        *)
  LastNode,         (* The last address of a node.  Bounds the model.      *)
  CrossDirectory,   (* Whether files are renamed to another directory.     *)
  HardLinks         (* Whether a file may be in several directories.       *)

Nodes    == 1..LastNode
NULL     == 0
Sentinel == -1      (* 0xffffffff, the end of lockfour's sorted pairs.     *)

ASSUME LockingAssumption ==
  /\ IsFiniteSet(Threads)
  /\ LastNode \in Nat
  /\ CrossDirectory \in BOOLEAN /\ HardLinks \in BOOLEAN

VARIABLES
  vtype,    (* Node -> "VDIR" or "VREG".                                   *)
  parent,   (* Node -> the node of its parent_nodeid, or NULL.             *)
  links,    (* Node -> the directories it is in.                           *)
  owner,    (* Node -> the threads that hold its nodelock.                 *)
  biglock,  (* The threads that hold the big lock.                         *)
  pc,       (* Thread -> where it is in its operation.                     *)
  args,     (* Thread -> the nodes its operation was given.                *)
  list,     (* Thread -> the nodes it is to lock, or to unlock, in order.  *)
  at        (* Thread -> how many of them it has locked, or unlocked.      *)

tree    == <<vtype, parent>>
vars    == <<vtype, parent, links, owner, biglock, pc, args, list, at>>

Dirs == {n \in Nodes : vtype[n] = "VDIR"}

-----------------------------------------------------------------------------
(* The order of the locks.                                                 *)

(* fusefs_isordered: TRUE if c1 is to be locked before c2.                 *)
IsOrdered(c1, c2) ==
  /\ c1 # c2
  /\ \/ c1 = NULL \/ c2 = Sentinel
     \/ /\ c2 # NULL /\ c1 # Sentinel
        /\ \/ parent[c2] = c1
           \/ parent[c1] # c2 /\ c1 < c2

Sorted(c1, c2) ==
  IF IsOrdered(c1, c2) THEN <<c1, c2, Sentinel>> ELSE <<c2, c1, Sentinel>>

(* Slips: a null node is not skipped, a duplicate is not skipped.          *)
SkipDuplicate(taken, c) == taken # <<>> /\ taken[Len(taken)] = c
SkipNull(taken, c) == c = NULL

(* Skipped are duplicates, if they follow their double at once, and null   *)
(* nodes, which come before all others.                                    *)
Skip(taken, c) == c = NULL \/ (taken # <<>> /\ taken[Len(taken)] = c)

Taken(taken, c) == IF Skip(taken, c) THEN taken ELSE Append(taken, c)

(* One turn of the merge: the smaller head of a and b joins the list.      *)
Merge(a, b, m) ==
  IF IsOrdered(a[m.i], b[m.j])
  THEN [i |-> m.i + 1, j |-> m.j, list |-> Taken(m.list, a[m.i])]
  ELSE [i |-> m.i, j |-> m.j + 1, list |-> Taken(m.list, b[m.j])]

(* fusefs_lockfour.  The sentinels make the loop turn exactly four times.  *)
LockFour(c1, c2, c3, c4) ==
  LET a == Sorted(c1, c2)
      b == Sorted(c3, c4)
      Turn(m) == Merge(a, b, m)
  IN  Turn(Turn(Turn(Turn([i |-> 1, j |-> 1, list |-> <<>>])))).list

(* Slip: a pair in the order in which it was given.                        *)
LockPairAsGiven(c1, c2) == IF c1 = c2 THEN <<c1>> ELSE <<c1, c2>>

(* fusefs_lockpair: a parent only first if it is given first.              *)
LockPair(c1, c2) ==
  IF c1 = c2 THEN <<c1>>
  ELSE IF (vtype[c1] = "VDIR" /\ parent[c2] = c1) \/ c1 < c2 THEN <<c1, c2>>
  ELSE <<c2, c1>>

(* The nodes that locked_vnop and nodelocked_vnop, _pair_vnop and          *)
(* _quad_vnop lock, in order.                                              *)
LockList(s) ==
  CASE Len(s) < 2 -> s
    [] Len(s) = 2 -> LockPair(s[1], s[2])
    [] Len(s) = 4 -> LockFour(s[1], s[2], s[3], s[4])

(* Slip: fusefs_unlockfour without its look at the first node.             *)
UnlockAgain(freed, c) ==
  IF c = NULL \/ \E i \in 2..Len(freed) : freed[i] = c
  THEN freed ELSE Append(freed, c)

(* One more node to unlock, unless it is null or there already.            *)
UnlockOnce(freed, c) ==
  IF c = NULL \/ \E i \in 1..Len(freed) : freed[i] = c
  THEN freed ELSE Append(freed, c)

UnlockPair(c1, c2) == IF c2 # c1 THEN <<c1, c2>> ELSE <<c1>>

(* fusefs_unlockfour.                                                      *)
UnlockFour(c1, c2, c3, c4) ==
  UnlockOnce(UnlockOnce(UnlockOnce(UnlockOnce(<<>>, c1), c2), c3), c4)

UnlockList(s) ==
  CASE Len(s) < 2 -> s
    [] Len(s) = 2 -> UnlockPair(s[1], s[2])
    [] Len(s) = 4 -> UnlockFour(s[1], s[2], s[3], s[4])

-----------------------------------------------------------------------------
(* The operations.                                                         *)

(* A node was looked up through one of the directories it is in.  The      *)
(* directory of a directory need not be among the nodes.                   *)
Init ==
  /\ vtype \in [Nodes -> {"VDIR", "VREG"}]
  /\ parent \in [Nodes -> Dirs \cup {NULL}]
  /\ \A n \in Nodes : vtype[n] = "VREG" => parent[n] # NULL
  /\ \A S \in (SUBSET Nodes) \ {{}} : ~(\A n \in S : parent[n] \in S)
  /\ IF HardLinks
     THEN /\ links \in [Nodes -> SUBSET Dirs]
          /\ \A n \in Nodes : IF vtype[n] = "VREG" THEN parent[n] \in links[n]
                              ELSE links[n] = {parent[n]} \ {NULL}
     ELSE links = [n \in Nodes |-> {parent[n]} \ {NULL}]
  /\ owner = [n \in Nodes |-> {}]
  /\ biglock = {}
  /\ pc = [th \in Threads |-> "idle"]
  /\ args = [th \in Threads |-> <<>>]
  /\ list = [th \in Threads |-> <<>>]
  /\ at = [th \in Threads |-> 0]

Enter(th, s) ==
  /\ pc[th] = "idle"
  /\ pc' = [pc EXCEPT ![th] = "lock"]
  /\ args' = [args EXCEPT ![th] = s]
  /\ list' = [list EXCEPT ![th] = LockList(s)]
  /\ UNCHANGED <<tree, links, owner, biglock, at>>

(* The operations that lock no node: blktooff, blockmap, offtoblk, pagein, *)
(* pageout, reclaim, revoke and strategy.                                  *)
Unnoded(th) == Enter(th, <<>>)

(* An operation on one node: lookup, create, getattr, read, remove, ...    *)
Single(th) == \E n \in Nodes : Enter(th, <<n>>)

(* fuse_biglock_vnop_exchange: two files.                                  *)
Exchange(th) ==
  \E f, t \in Nodes \ Dirs : f # t /\ Enter(th, <<f, t>>)

(* fuse_biglock_vnop_rename: of fvp in fdvp, to a free name in tdvp or     *)
(* over tvp, as the caller has just looked them up.                        *)
Rename(th) ==
  \E fdvp, tdvp \in Dirs, fvp \in Nodes, tvp \in Nodes \cup {NULL} :
    /\ CrossDirectory \/ fdvp = tdvp
    /\ fdvp \in links[fvp] /\ fvp # tdvp
    /\ tvp # NULL => tdvp \in links[tvp] /\ vtype[tvp] = vtype[fvp]
    /\ tvp = fvp => fdvp # tdvp
    /\ Enter(th, <<tdvp, fdvp, fvp, tvp>>)

(* The node a thread is to lock, or unlock, next.                          *)
Now(th) == list[th][at[th] + 1]

(* fusefs_lock.                                                            *)
Lock(th) ==
  /\ pc[th] = "lock" /\ at[th] < Len(list[th])
  /\ owner[Now(th)] = {}
  /\ owner' = [owner EXCEPT ![Now(th)] = {th}]
  /\ at' = [at EXCEPT ![th] = @ + 1]
  /\ UNCHANGED <<tree, links, biglock, pc, args, list>>

TakeBiglock(th) ==
  /\ pc[th] = "lock" /\ at[th] = Len(list[th])
  /\ biglock = {}
  /\ biglock' = {th}
  /\ pc' = [pc EXCEPT ![th] = "run"]
  /\ UNCHANGED <<tree, links, owner, args, list, at>>

(* The nodes below n, n included: the least set closed under children.     *)
Subtree(n) ==
  {m \in Nodes : \A S \in SUBSET Nodes :
     n \in S /\ (\A c \in Nodes : links[c] \cap S # {} => c \in S) => m \in S}

(* The daemon renames, unless the names no longer mean these nodes or a    *)
(* directory would move below itself.                                      *)
Renamed(s) ==
  LET tdvp == s[1] fdvp == s[2] fvp == s[3] tvp == s[4]
  IN  /\ fdvp \in links[fvp] /\ tdvp \notin Subtree(fvp)
      /\ tvp # NULL => tdvp \in links[tvp]
      /\ links' = [n \in Nodes |->
                     IF n = fvp THEN (links[n] \ {fdvp}) \cup {tdvp}
                     ELSE IF n = tvp THEN links[n] \ {tdvp}
                     ELSE links[n]]

(* The operation runs and releases the big lock.  It may drop the big lock *)
(* meanwhile, around calls into the rest of the kernel, and take it again; *)
(* so does an operation the kernel calls back in between, on that thread.  *)
Run(th) ==
  /\ pc[th] = "run" /\ biglock = {th}
  /\ \/ UNCHANGED links
     \/ Len(args[th]) = 4 /\ Renamed(args[th])
  /\ biglock' = {}
  /\ pc' = [pc EXCEPT ![th] = "unlock"]
  /\ list' = [list EXCEPT ![th] = UnlockList(args[th])]
  /\ at' = [at EXCEPT ![th] = 0]
  /\ UNCHANGED <<tree, owner, args>>

DropBiglock(th) ==
  /\ pc[th] = "run" /\ biglock = {th}
  /\ biglock' = {}
  /\ pc' = [pc EXCEPT ![th] = "out"]
  /\ UNCHANGED <<tree, links, owner, args, list, at>>

RetakeBiglock(th) ==
  /\ pc[th] = "out" /\ biglock = {}
  /\ biglock' = {th}
  /\ pc' = [pc EXCEPT ![th] = "run"]
  /\ UNCHANGED <<tree, links, owner, args, list, at>>

(* fusefs_unlock, one node at a time.                                      *)
Unlock(th) ==
  /\ pc[th] = "unlock" /\ at[th] < Len(list[th])
  /\ owner' = [owner EXCEPT ![Now(th)] = {}]
  /\ at' = [at EXCEPT ![th] = @ + 1]
  /\ UNCHANGED <<tree, links, biglock, pc, args, list>>

Leave(th) ==
  /\ pc[th] = "unlock" /\ at[th] = Len(list[th])
  /\ pc' = [pc EXCEPT ![th] = "idle"]
  /\ args' = [args EXCEPT ![th] = <<>>]
  /\ list' = [list EXCEPT ![th] = <<>>]
  /\ at' = [at EXCEPT ![th] = 0]
  /\ UNCHANGED <<tree, links, owner, biglock>>

(* The steps of an operation that is not running.                          *)
Advance(th) ==
  Lock(th) \/ TakeBiglock(th) \/ RetakeBiglock(th) \/ Unlock(th) \/ Leave(th)

Next == \E th \in Threads :
          \/ Unnoded(th) \/ Single(th) \/ Exchange(th) \/ Rename(th)
          \/ Advance(th) \/ Run(th) \/ DropBiglock(th)

(* The kernel's locks serve whoever waits, an operation drops the big lock *)
(* a bounded number of times, and a thread in the kernel does not stop.    *)
Fairness ==
  \A th \in Threads : SF_vars(Advance(th)) /\ SF_vars(Run(th))

Spec     == Init /\ [][Next]_vars
FairSpec == Spec /\ Fairness

-----------------------------------------------------------------------------
(* Properties.                                                             *)

TypeOK ==
  /\ vtype \in [Nodes -> {"VDIR", "VREG"}]
  /\ parent \in [Nodes -> Nodes \cup {NULL}]
  /\ links \in [Nodes -> SUBSET Nodes]
  /\ owner \in [Nodes -> SUBSET Threads]
  /\ biglock \in SUBSET Threads
  /\ pc \in [Threads -> {"idle", "lock", "run", "out", "unlock"}]
  /\ args \in [Threads -> Seq(Nodes \cup {NULL})]
  /\ list \in [Threads -> Seq(Nodes)]
  /\ at \in [Threads -> 0..4]

(* The nodes a thread has locked and not yet released.                     *)
Held(th) ==
  CASE pc[th] = "idle"   -> {}
    [] pc[th] = "lock"   -> {list[th][i] : i \in 1..at[th]}
    [] pc[th] = "unlock" -> {list[th][i] : i \in (at[th] + 1)..Len(list[th])}
    [] OTHER             -> {list[th][i] : i \in 1..Len(list[th])}

(* The locks a thread holds are those the list of its locking and the list *)
(* of its unlocking account for: a node given twice is locked once and     *)
(* unlocked once, a null node not at all, and nothing stays locked behind  *)
(* an operation.                                                           *)
LocksAccountedFor ==
  \A n \in Nodes, th \in Threads : th \in owner[n] <=> n \in Held(th)

Wanting(th) == pc[th] = "lock" /\ at[th] < Len(list[th])

(* No threads wait for each other's nodes in a circle, and none waits for  *)
(* a node it has locked itself: two-node and four-node operations do not   *)
(* deadlock.  True of renames within directories that have no hard links:  *)
(* IsOrdered puts a file after the directory it was looked up in, but its  *)
(* other directories, before or after a rename, where their addresses say. *)
NoLockCycle ==
  \A S \in (SUBSET Threads) \ {{}} :
    ~\A th \in S : Wanting(th) /\ owner[Now(th)] \cap S # {}

(* fuse_locking.c:150, "locked in fusenode parent-child order (if there is *)
(* a relationship)": a node's parent is not locked after the node.         *)
ParentFirst ==
  \A th \in Threads : pc[th] = "lock" =>
    \A i, j \in 1..Len(list[th]) : list[th][i] = parent[list[th][j]] => i < j

(* Every operation gets its locks, and returns.                            *)
EveryOperationEnds ==
  \A th \in Threads : pc[th] # "idle" ~> pc[th] = "idle"
=============================================================================
