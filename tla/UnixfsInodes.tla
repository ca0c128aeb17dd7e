---------------------------- MODULE UnixfsInodes ----------------------------
(* The inode layer of UnixFS, the sample file system for the disks and     *)
(* archives of old Unixes: a hash table of reference-counted inodes that   *)
(* the threads of fuse_session_loop_mt share                               *)
(* (filesystems/unixfs/common/unixfs/unixfs_internal.c), the requests of   *)
(* common/unixfs/unixfs.c that use it, and between them iget, igetattr and *)
(* namei of one of the file systems (ancientfs/ancientfs_v7.c; those of    *)
(* the others have the same calls in the same order).                      *)
(*                                                                         *)
(* An inode's memory is a cell.  Whoever refers to a cell goes on to touch *)
(* it, so to free a cell that others refer to is undefined behaviour, and  *)
(* so is LIST_REMOVE of what is not in the table: the model ends there.    *)
EXTENDS Naturals, FiniteSets

CONSTANTS
  Threads,    \* of the daemon
  Inodes,     \* inode numbers
  Dirs,       \* those of directories
  Entries,    \* what each directory names, "." and ".." included
  Unreadable, \* the inodes whose block may fail to be read
  Cells,      \* the heap: as many as are ever in use at once
  Files,      \* bound: files open at once
  None        \* the null pointer

ASSUME ConstantsAssumption ==
  /\ Dirs \subseteq Inodes /\ Unreadable \subseteq Inodes
  /\ Entries \in [Dirs -> SUBSET Inodes]
  /\ IsFiniteSet(Threads) /\ IsFiniteSet(Cells) /\ IsFiniteSet(Files)
  /\ Inodes # {} /\ None \notin Cells /\ None \notin Inodes

VARIABLES
  num,          \* I_number, None of a free cell
  count,        \* I_count
  initialized,  \* the cells with I_initialized,
  attaching,    \*   with I_attachoutstanding
  waiting,      \*   and with I_waiting
  table,        \* the cells in ihash_table
  ihash_count,
  asleep,       \* the threads in pthread_cond_wait that were not yet woken
  fh,           \* the cell each open file holds in fi->fh
  crashed,      \* how the daemon ended
  stranded,     \* history: a read failed while others waited for it
  pc, op, ino, ip, spare, dp, todo
                \* of each thread: where it is, its request, the inode it
                \* gets, the cell it holds, its new_node, the directory it
                \* is in and the entries still to look at

cells   == <<num, count, initialized, attaching, waiting>>
hash    == <<table, ihash_count, asleep>>
request == <<op, ino, dp, todo>>
vars    == <<cells, hash, fh, crashed, stranded, pc, request, ip, spare>>

Init ==
  /\ num = [n \in Cells |-> None] /\ count = [n \in Cells |-> 0]
  /\ initialized = {} /\ attaching = {} /\ waiting = {}
  /\ table = {} /\ ihash_count = 0 /\ asleep = {}
  /\ fh = [f \in Files |-> None]
  /\ crashed = "no" /\ stranded = FALSE
  /\ pc = [t \in Threads |-> "idle"] /\ op = [t \in Threads |-> "none"]
  /\ ino = [t \in Threads |-> CHOOSE i \in Inodes : TRUE]
  /\ ip = [t \in Threads |-> None] /\ spare = [t \in Threads |-> None]
  /\ dp = [t \in Threads |-> None] /\ todo = [t \in Threads |-> {}]

At(t, where) == crashed = "no" /\ pc[t] = where
Goto(t, where) == pc' = [pc EXCEPT ![t] = where]

(* How many refer to a cell: threads that hold it as their inode, threads  *)
(* that hold it as their directory, and open files.                        *)
Holders(S, g, n) == {s \in S : g[s] = n}

RefsIn(inode, dir, handle, n) ==
  Cardinality(Holders(Threads, inode, n)) + Cardinality(Holders(Threads, dir, n))
  + Cardinality(Holders(Files, handle, n))

Refs(n) == RefsIn(ip, dp, fh, n)

(* A thread may free its cell.                                             *)
OnlyRef(t) == Refs(ip[t]) = 1

Crash(how) ==
  /\ crashed' = how
  /\ UNCHANGED <<cells, hash, fh, stranded, pc, request, ip, spare>>

-----------------------------------------------------------------------------
(* unixfs_inodelayer_iget.                                                 *)

(* The search of the hash chain for an inode: the cell, or none.           *)
Found(i) == {n \in table : num[n] = i}

LookMiss(t) ==
  /\ At(t, "look") /\ Found(ino[t]) = {} /\ spare[t] = None
  /\ Goto(t, "alloc")
  /\ UNCHANGED <<cells, hash, fh, crashed, stranded, request, ip, spare>>

(* calloc runs without ihash_lock: another thread may insert the inode.    *)
(* Which free cell it returns makes no difference.                         *)
Alloc(t) ==
  /\ At(t, "alloc") /\ \E n \in Cells : num[n] = None
  /\ LET n == CHOOSE c \in Cells : num[c] = None
     IN  /\ num' = [num EXCEPT ![n] = ino[t]]
         /\ spare' = [spare EXCEPT ![t] = n]
  /\ Goto(t, "look")
  /\ UNCHANGED <<count, initialized, attaching, waiting, hash, fh, crashed,
                 stranded, request, ip>>

(* iget of the layer returns NULL, iget of the file system calls abort.    *)
AllocFails(t) == At(t, "alloc") /\ Crash("abort")

(* Slip: what another thread has inserted during calloc is not looked for. *)
LookInsertBlind(t) ==
  /\ At(t, "look") /\ spare[t] # None
  /\ table' = table \cup {spare[t]} /\ ihash_count' = ihash_count + 1
  /\ attaching' = attaching \cup {spare[t]}
  /\ count' = [count EXCEPT ![spare[t]] = @ + 1]
  /\ ip' = [ip EXCEPT ![t] = spare[t]] /\ spare' = [spare EXCEPT ![t] = None]
  /\ Goto(t, "got")
  /\ UNCHANGED <<num, initialized, waiting, asleep, fh, crashed, stranded,
                 request>>

(* LIST_INSERT_HEAD, and the claim to read the inode.                      *)
LookInsert(t) ==
  /\ At(t, "look") /\ Found(ino[t]) = {} /\ spare[t] # None
  /\ table' = table \cup {spare[t]} /\ ihash_count' = ihash_count + 1
  /\ attaching' = attaching \cup {spare[t]}
  /\ count' = [count EXCEPT ![spare[t]] = @ + 1]
  /\ ip' = [ip EXCEPT ![t] = spare[t]] /\ spare' = [spare EXCEPT ![t] = None]
  /\ Goto(t, "got")
  /\ UNCHANGED <<num, initialized, waiting, asleep, fh, crashed, stranded,
                 request>>

(* Slip: whoever waits is not counted before it has slept.                 *)
LookWaitUncounted(t) ==
  /\ At(t, "look")
  /\ \E n \in Found(ino[t]) \cap attaching :
       waiting' = waiting \cup {n} /\ ip' = [ip EXCEPT ![t] = n]
  /\ asleep' = asleep \cup {t}
  /\ Goto(t, "wait")
  /\ UNCHANGED <<num, count, initialized, attaching, table, ihash_count, fh,
                 crashed, stranded, request, spare>>

(* Another thread is reading the inode: sleep until it has.                *)
LookWait(t) ==
  /\ At(t, "look")
  /\ \E n \in Found(ino[t]) \cap attaching :
       /\ waiting' = waiting \cup {n}
       /\ count' = [count EXCEPT ![n] = @ + 1]
       /\ ip' = [ip EXCEPT ![t] = n]
  /\ asleep' = asleep \cup {t}
  /\ Goto(t, "wait")
  /\ UNCHANGED <<num, initialized, attaching, table, ihash_count, fh, crashed,
                 stranded, request, spare>>

(* iget returns a cell; a new_node that was not needed is freed.           *)
Return(t) ==
  /\ num' = [n \in Cells |-> IF n = spare[t] THEN None ELSE num[n]]
  /\ spare' = [spare EXCEPT ![t] = None]
  /\ Goto(t, "got")

(* Slip: an inode that another thread is still reading is not waited for.  *)
LookTakeEarly(t) ==
  /\ At(t, "look")
  /\ \E n \in Found(ino[t]) :
       /\ attaching' =
            IF n \in initialized THEN attaching ELSE attaching \cup {n}
       /\ count' = [count EXCEPT ![n] = @ + 1]
       /\ ip' = [ip EXCEPT ![t] = n]
  /\ Return(t)
  /\ UNCHANGED <<initialized, waiting, hash, fh, crashed, stranded, request>>

LookTake(t) ==
  /\ At(t, "look")
  /\ \E n \in Found(ino[t]) \ attaching :
       /\ attaching' =
            IF n \in initialized THEN attaching ELSE attaching \cup {n}
       /\ count' = [count EXCEPT ![n] = @ + 1]
       /\ ip' = [ip EXCEPT ![t] = n]
  /\ Return(t)
  /\ UNCHANGED <<initialized, waiting, hash, fh, crashed, stranded, request>>

(* Woken: nobody else can have begun to read the inode again.              *)
Wake(t) ==
  /\ At(t, "wait") /\ t \notin asleep
  /\ IF ip[t] \in attaching
     THEN /\ asleep' = asleep \cup {t}
          /\ UNCHANGED <<num, spare, pc>>
     ELSE Return(t) /\ UNCHANGED asleep
  /\ UNCHANGED <<count, initialized, attaching, waiting, table,
                 ihash_count, fh, crashed, stranded, request, ip>>

-----------------------------------------------------------------------------
(* unixfs_internal_iget: the inode is read by whoever finds it not         *)
(* initialized.                                                            *)

Got(t) ==
  /\ At(t, "got")
  /\ Goto(t, IF ip[t] \in initialized THEN "use" ELSE "read")
  /\ UNCHANGED <<cells, hash, fh, crashed, stranded, request, ip, spare>>

(* The end of isucceeded and of ifailed: whoever waits for cell n is woken.*)
AttachOver(n) ==
  /\ attaching' = attaching \ {n} /\ waiting' = waiting \ {n}
  /\ asleep' = IF n \in waiting THEN {u \in asleep : ip[u] # n} ELSE asleep

(* Slip: whoever waits for the inode is not woken.                         *)
ReadSucceedsSilently(t) ==
  /\ At(t, "read")
  /\ initialized' = initialized \cup {ip[t]}
  /\ attaching' = attaching \ {ip[t]} /\ waiting' = waiting \ {ip[t]}
  /\ Goto(t, "use")
  /\ UNCHANGED <<num, count, hash, fh, crashed, stranded, request, ip, spare>>

(* unixfs_inodelayer_isucceeded.                                           *)
ReadSucceeds(t) ==
  /\ At(t, "read")
  /\ initialized' = initialized \cup {ip[t]}
  /\ AttachOver(ip[t])
  /\ Goto(t, "use")
  /\ UNCHANGED <<num, count, table, ihash_count, fh, crashed, stranded, request,
                 ip, spare>>

(* unixfs_inodelayer_ifailed, with the mutex: LIST_REMOVE comes first.     *)
ReadFails(t) ==
  /\ At(t, "read") /\ ino[t] \in Unreadable /\ ip[t] \in table
  /\ table' = table \ {ip[t]} /\ ihash_count' = ihash_count - 1
  /\ initialized' = initialized \ {ip[t]}
  /\ AttachOver(ip[t])
  /\ stranded' = (stranded \/ ip[t] \in waiting)
  /\ Goto(t, "failed")
  /\ UNCHANGED <<num, count, fh, crashed, request, ip, spare>>

ReadFailsAgain(t) ==
  /\ At(t, "read") /\ ino[t] \in Unreadable /\ ip[t] \notin table
  /\ Crash("undefined")

(* calloc zeroes what it returns; here free does.                          *)
Free(n) ==
  /\ num' = [num EXCEPT ![n] = None] /\ count' = [count EXCEPT ![n] = 0]
  /\ initialized' = initialized \ {n}

(* A request that is over answers; igetattr of an entry returns.           *)
Done(t) ==
  /\ ip' = [ip EXCEPT ![t] = None]
  /\ Goto(t, IF dp[t] # None THEN "scan" ELSE "idle")
  /\ op' = IF dp[t] # None THEN op ELSE [op EXCEPT ![t] = "none"]

(* Slip: the inode is counted off the table a second time.                 *)
FreeFailedTwice(t) ==
  /\ At(t, "failed")
  /\ Free(ip[t])
  /\ ihash_count' = ihash_count - 1
  /\ crashed' = IF OnlyRef(t) THEN IF op[t] = "open" THEN "null" ELSE "no"
                 ELSE "undefined"
  /\ Done(t)
  /\ UNCHANGED <<attaching, waiting, table, asleep, fh, stranded, ino, dp, todo,
                 spare>>

(* Its end, without: the inode is freed, whoever waited.  iget returns     *)
(* NULL, to igetattr of an entry, to a request that answers ENOENT, or to  *)
(* unixfs_ll_open, which answers ENOENT and goes on with it.               *)
FreeFailed(t) ==
  /\ At(t, "failed")
  /\ Free(ip[t])
  /\ crashed' = IF OnlyRef(t) THEN IF op[t] = "open" THEN "null" ELSE "no"
                 ELSE "undefined"
  /\ Done(t)
  /\ UNCHANGED <<attaching, waiting, hash, fh, stranded, ino, dp, todo, spare>>

-----------------------------------------------------------------------------
(* The requests.                                                           *)

(* Bound: there is a free handle for every open under way.                 *)
MayOpen ==
  Cardinality({u \in Threads : op[u] = "open"})
    < Cardinality({f \in Files : fh[f] = None})

(* getattr, lookup in a directory, readdir of one, open of a file.         *)
Start(t) ==
  /\ At(t, "idle")
  /\ \E o \in {"getattr", "lookup", "readdir", "open"}, i \in Inodes :
       /\ o = "open" => MayOpen
       /\ op' = [op EXCEPT ![t] = o] /\ ino' = [ino EXCEPT ![t] = i]
  /\ Goto(t, "look")
  /\ UNCHANGED <<cells, hash, fh, crashed, stranded, ip, spare, dp, todo>>

(* istat, and the inode is put: igetattr, of a request or of an entry, and *)
(* what is not what the request needs.                                     *)
UseAndPut(t) ==
  /\ dp[t] # None \/ op[t] = "getattr"
     \/ (op[t] = "open" <=> ino[t] \in Dirs)
  /\ Goto(t, "put")
  /\ UNCHANGED <<cells, hash, fh, crashed, stranded, request, ip, spare>>

(* namei looks for one name, which may not be there; unixfs_ll_readdir     *)
(* asks for the attributes of every entry.                                 *)
UseDirectory(t) ==
  /\ dp[t] = None /\ op[t] \in {"lookup", "readdir"} /\ ino[t] \in Dirs
  /\ dp' = [dp EXCEPT ![t] = ip[t]] /\ ip' = [ip EXCEPT ![t] = None]
  /\ \E s \in SUBSET Entries[ino[t]] :
       /\ IF op[t] = "readdir" THEN s = Entries[ino[t]] ELSE Cardinality(s) <= 1
       /\ todo' = [todo EXCEPT ![t] = s]
  /\ Goto(t, "scan")
  /\ UNCHANGED <<cells, hash, fh, crashed, stranded, op, ino, spare>>

(* unixfs_ll_open keeps the inode as the handle of the file.               *)
UseOpen(t) ==
  /\ dp[t] = None /\ op[t] = "open" /\ ino[t] \notin Dirs
  /\ \E f \in Files : fh[f] = None /\ fh' = [fh EXCEPT ![f] = ip[t]]
  /\ Done(t)
  /\ UNCHANGED <<cells, hash, crashed, stranded, ino, dp, todo, spare>>

Use(t) == At(t, "use") /\ (UseAndPut(t) \/ UseDirectory(t) \/ UseOpen(t))

(* bmap reads the addresses of the directory's inode, then bread the block.*)
ScanEntry(t) ==
  /\ At(t, "scan")
  /\ \E i \in todo[t] : /\ ino' = [ino EXCEPT ![t] = i]
                        /\ todo' = [todo EXCEPT ![t] = @ \ {i}]
  /\ Goto(t, "look")
  /\ UNCHANGED <<cells, hash, fh, crashed, stranded, op, ip, spare, dp>>

(* No entry is left, or the next block cannot be read: the directory is put*)
ScanEnds(t) ==
  /\ At(t, "scan")
  /\ ip' = [ip EXCEPT ![t] = dp[t]] /\ dp' = [dp EXCEPT ![t] = None]
  /\ todo' = [todo EXCEPT ![t] = {}]
  /\ Goto(t, "put")
  /\ UNCHANGED <<cells, hash, fh, crashed, stranded, op, ino, spare>>

(* unixfs_inodelayer_iput.                                                 *)
Put(t) ==
  /\ At(t, "put") /\ count[ip[t]] > 1
  /\ count' = [count EXCEPT ![ip[t]] = @ - 1]
  /\ Done(t)
  /\ UNCHANGED <<num, initialized, attaching, waiting, hash, fh, crashed,
                 stranded, ino, dp, todo, spare>>

LastPut(t) ==
  /\ At(t, "put") /\ count[ip[t]] = 1
  /\ table' = table \ {ip[t]} /\ ihash_count' = ihash_count - 1
  /\ Free(ip[t])
  /\ crashed' = IF ip[t] \in table /\ OnlyRef(t) THEN "no" ELSE "undefined"
  /\ Done(t)
  /\ UNCHANGED <<attaching, waiting, asleep, fh, stranded, ino, dp, todo,
                 spare>>

(* The kernel releases a handle once, and sends no read afterwards.        *)
Release(t) ==
  /\ At(t, "idle")
  /\ \E f \in Files : /\ fh[f] # None
                      /\ ip' = [ip EXCEPT ![t] = fh[f]]
                      /\ fh' = [fh EXCEPT ![f] = None]
  /\ op' = [op EXCEPT ![t] = "release"]
  /\ Goto(t, "put")
  /\ UNCHANGED <<cells, hash, crashed, stranded, ino, dp, todo, spare>>

-----------------------------------------------------------------------------
Advance(t) ==
  \/ LookMiss(t) \/ Alloc(t) \/ LookInsert(t) \/ LookWait(t) \/ LookTake(t)
  \/ Wake(t) \/ Got(t) \/ ReadSucceeds(t) \/ ReadFails(t) \/ ReadFailsAgain(t)
  \/ FreeFailed(t) \/ Use(t) \/ ScanEntry(t) \/ ScanEnds(t)
  \/ Put(t) \/ LastPut(t)

(* A daemon that has ended takes no more steps.                            *)
Ended == crashed # "no" /\ UNCHANGED vars

Next ==
  \/ \E t \in Threads :
       Start(t) \/ Release(t) \/ AllocFails(t) \/ Advance(t)
  \/ Ended

Spec == Init /\ [][Next]_vars

(* The threads of the daemon run, and ihash_lock serves whoever waits.     *)
FairSpec == Spec /\ \A t \in Threads : WF_vars(Advance(t))

-----------------------------------------------------------------------------
(* Properties.                                                             *)

TypeOK ==
  /\ num \in [Cells -> Inodes \cup {None}] /\ count \in [Cells -> Nat]
  /\ initialized \subseteq Cells /\ attaching \subseteq Cells
  /\ waiting \subseteq Cells
  /\ table \subseteq Cells /\ ihash_count \in Nat /\ asleep \subseteq Threads
  /\ fh \in [Files -> Cells \cup {None}]
  /\ crashed \in {"no", "abort", "null", "undefined"} /\ stranded \in BOOLEAN
  /\ pc \in [Threads -> {"idle", "look", "alloc", "wait", "got", "read",
                         "failed", "use", "scan", "put"}]
  /\ op \in [Threads ->
             {"none", "getattr", "lookup", "readdir", "open", "release"}]
  /\ ino \in [Threads -> Inodes]
  /\ ip \in [Threads -> Cells \cup {None}]
  /\ spare \in [Threads -> Cells \cup {None}]
  /\ dp \in [Threads -> Cells \cup {None}]
  /\ todo \in [Threads -> SUBSET Inodes]

(* The table holds one cell for each inode in use, counted once for        *)
(* everyone who refers to it, and every other cell is somebody's spare,    *)
(* about to be freed after a failed read, or free.                         *)
CellsAccountedFor ==
  crashed # "undefined" =>
    /\ ihash_count = Cardinality(table)
    /\ \A m, n \in table : num[m] = num[n] => m = n
    /\ \A n \in table : count[n] = Refs(n) /\ count[n] > 0
    /\ \A n \in Cells \ table : num[n] # None =>
         \E t \in Threads : \/ spare[t] = n
                            \/ ip[t] = n /\ pc[t] = "failed"

(* What a thread has got is the inode it asked for, in use nowhere but in  *)
(* the table and, unless a read has failed under a waiter, read by one     *)
(* thread while all others that want it wait.                              *)
RightInode ==
  crashed # "undefined" =>
    /\ \A t \in Threads : pc[t] \in {"wait", "got", "read", "use"} =>
         num[ip[t]] = ino[t]
    /\ stranded \/ \A t, u \in Threads :
         pc[t] = "read" /\ ip[u] = ip[t] => u = t \/ pc[u] = "wait"

(* unixfs_internal.c:180-185 says that not looking the inode up again once *)
(* the wait is over works for a read-only file system.  It does unless a   *)
(* read fails: freed memory is touched only after a read has failed under  *)
(* a waiter.                                                               *)
UndefinedOnlyIfStranded == crashed = "undefined" => stranded

(* Every request ends: whoever waits for an inode that another thread      *)
(* reads is woken, and nobody looks, allocates and looks again for ever.   *)
RequestsEnd ==
  \A t \in Threads :
    pc[t] # "idle" ~> pc[t] = "idle" \/ crashed # "no" \/ stranded
=============================================================================
