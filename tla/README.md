# MacFUSE in TLA+

This directory holds the formal models of MacFUSE: TLA+ modules translated from
the C source of the kernel extension (`core/10.5/fusefs`) and of one of the file
systems that come with it (`filesystems/unixfs`), configurations that check them
with TLC on small instances, and proofs that TLAPS checks for every value of the
constants.

MacFUSE lets a user-space daemon implement a file system.  The kernel extension
turns vnode operations into messages, the daemon reads them from `/dev/fuseN`
and writes its answers back.  What is hard about it is not any single operation
but that three parties who do not trust each other's timing (requesters in the
kernel, the daemon, and the administrator or the mount machinery that ends the
session) share tickets, queues, vnodes and locks.

## 1. Inventory

| component | state | operations | hard behaviour | correct when |
|---|---|---|---|---|
| kernel/daemon channel, `fuse_ipc.c` | `alltickets_head`, `freetickets_head` and their counters, `ms_head`, `aw_head`, `dataflags`, `timeout_status`; per ticket `tk_unique`, `tk_age`, `tk_flag`, `tk_aw_handler`, message and answer | `fuse_ticket_fetch/drop/kill`, `fdisp_make`, `fdisp_wait_answ`, `fuse_insert_callback/message`, `fuse_standard_handler`, `fdata_set_dead` | a requester gives up while its answer arrives; tickets are recycled; timeouts; death of the session | each ticket has one owner and is dropped once; a requester reads its own answer; every request returns |
| device, `fuse_device.c` | `fdev->data`, `usecount`, the two queues | open, close, read, write, ioctl, `fuse_device_kill` | close against mount and unmount; reads and writes in progress | messages are delivered in order, once; sleepers are released |
| VFS operations, `fuse_vfsops.c` | `mount_state`, `data->mp`, `rootvp` | mount, unmount, root, statfs, sync | mount with a daemon that exits; unmount with one that hangs | the session is destroyed exactly once |
| vnode hash, `fuse_nodehash.c` | a table of `HNode`s, their forks, `attachOutstanding`, `waiting`, `inHashTable`, `forkVNodesSize` | `HNodeLookupCreatingIfNecessary`, `AttachVNodeSucceeded/Failed`, `DetachVNode`, `ScrubDone` | the lock is released around allocation, `vnode_getwithvid` and `msleep` | at most one vnode per inode and fork; nobody waits for ever |
| vnodes, `fuse_node.c` | `struct fuse_vnode_data`: `nlookup`, `parentvp`, flags | `FSNodeGetOrCreateFileVNodeByID`, reclaim | lookups against reclaim | `nlookup` is what the daemon counted |
| locking, `fuse_locking.c` | `nodelock`, `truncatelock` per vnode | `fusefs_lock`, `lockpair`, `lockfour` and their unlocks | two to four vnodes locked at once | no deadlock, every lock released once |
| big lock, `fuse_biglock_vnops.c` | `data->biglock` | a wrapper per vnode operation | dropped around calls that may sleep | 64-bit builds only |
| vnode operations, `fuse_vnops.c` | through the other components | lookup, create, rename, remove, open, read, write, ... | partial failures after the daemon has already answered | counts and handles balance |
| file handles, `fuse_file.c` | `fufh[]` with `open_count`, `fufh_flags` | get, put, use | open and close of the same mode by several threads | one RELEASE per OPEN |
| internals, `fuse_internal.c` | none of its own | FORGET, INTERRUPT, FSYNC, INIT, rename, remove | messages nobody waits for | they do not leak tickets |
| kext start and stop, `fuse_main.c` | `fuse_interface_available`, the devices, the registered file system | `fusefs_start`, `fusefs_stop` | stopping against opening, mounting and unmounting | nothing in use is freed |
| UnixFS, `filesystems/unixfs` | `ihash_table`, `ihash_count`; per inode `I_count`, `I_initialized`, `I_attachoutstanding`, `I_waiting`; open files' inodes | `unixfs_inodelayer_iget/iput/isucceeded/ifailed`, the requests `lookup`, `getattr`, `readdir`, `open`, `release` | several threads of one daemon want one inode; its block cannot be read | each inode is read once and counted exactly; no thread touches freed memory or waits for ever |
| knotes, sysctl, mount and load helpers | little | | | thin |
| 10.4 kext, libfuse patches, SDK, preference pane, autoinstaller, other sample file systems | | | | see 7 |

Interaction: a vnode operation (`fuse_vnops.c`) holds vnode locks
(`fuse_locking.c`), builds a message (`fuse_internal.c`), sends it and sleeps on
its ticket (`fuse_ipc.c`); the daemon's `read(2)` and `write(2)`
(`fuse_device.c`) take messages off `ms_head` and tickets off `aw_head`; close,
kill, the ioctl and a timeout set `FSESS_DEAD`, which every other path looks at
without a lock.  Answers to lookups create vnodes through the hash
(`fuse_node.c`, `fuse_nodehash.c`), whose reclaim sends FORGETs.  The session
itself (`fuse_data`) is shared by the open device and the mounted volume, and
whichever of the two goes last destroys it.  A daemon may serve its requests with
several threads; UnixFS does, and its inode table is shared by them.

## 2. Modules

| module | models | role |
|---|---|---|
| `FuseIpc` | `fuse_ipc.c`, read/write/close/kill/ioctl of `fuse_device.c`, the unwaited messages of `fuse_internal.c` | the channel, with its properties, fairness and the named slips the runs are tested against |
| `FuseRequest` | what `fdisp_wait_answ` promises its callers | abstract specification |
| `FuseIpcRefines` | | the refinement mapping from `FuseIpc` to `FuseRequest` |
| `FuseIpcInvariant` | | the inductive invariants: who owns a ticket, which request it carries |
| `FuseIpcProofs` | | type correctness, the bound of the free list, lemmas on fields and sequences |
| `FuseIpcSteps` | | one lemma per action: it preserves the inductive invariant |
| `FuseIpcOwnership` | | the theorems that follow, and the refinement |
| `NodeLocking` | `fuse_locking.c`, the wrappers of `fuse_biglock_vnops.[ch]` | locks of one, two and four nodes, and the big lock |
| `NodeLockingProofs` | | accounting of locks for every tree, no circle of waiting threads in trees without hard links |
| `HNodeTable` | `fuse_nodehash.c`, vnode creation of `fuse_node.c`, reclaim of `fuse_vnops.c`, the vnode ioctl of `fuse_device.c` | the table of vnodes |
| `HNodeTableProofs` | | its inductive invariant and the theorems about it |
| `FuseSession` | open, close, kill and the ioctl of `fuse_device.c`, mount and unmount of `fuse_vfsops.c`, INIT of `fuse_internal.c`, stop and start of `fuse_main.c` | a session from open to destruction |
| `FuseSessionProofs` | | its inductive invariant and the theorems about it |
| `FuseVnode` | lookup, create, open, close, mmap, inactive, reclaim of `fuse_vnops.c`, the handles of `fuse_file.c`, paging of `fuse_internal.c` | a regular file's lookup counts and handles |
| `FuseVnodeProofs` | | its inductive invariant and the theorems about it |
| `UnixfsInodes` | `unixfs_internal.c`, the requests of `unixfs.c`, iget, igetattr and namei of `ancientfs_v7.c` | the inode table of a file system daemon |
| `UnixfsInodesProofs` | | its inductive invariant and the theorems about it |
| `MCFuseIpc`, `MCNodeLocking`, `MCHNodeTable`, `MCFuseSession`, `MCFuseVnode`, `MCUnixfsInodes` | | values and symmetry for TLC |

A definition whose comment says "slip" is not part of a model: it is a plausible
mistake in the code, and PROJECT.json names the property that must then fail.

### FuseIpc

State.  `tk` maps every ticket to the fields that matter: `unique`, `age`,
`flag` (`FT_ANSW`, `FT_INVAL`, `FT_DIRTY`, `FT_KILLL`), the handler, the request
its message carries (`ms`), the request its reply answers (`resp`), the reply's
error, and `tk_aw_errno`.  `freetickets` and `ms_head` are sequences;
`alltickets` and `aw_head` are sets, because the code never depends on their
order (`fuse_device_write` searches `aw_head` by number).  Messages are reduced
to the ticket number and the request; their contents do not matter here.

Each thread has a program counter whose values are the points where another
thread can come between: entering or leaving `ms_mtx`, `aw_mtx`, `ticket_mtx`
and `tk_aw_mtx`, and `msleep`.  `tk_aw_mtx` is implicit except while the timeout
alert is shown, when it stays held (`MutexFree`).  Requesters (threads in vnode
operations) go through

    idle -> fetch (-> alloc) -> make -> callback -> push_aw -> message -> push_ms
         -> wait -> sleep -> woken -> use -> drop -> refresh -> idle
                          -> post -> detach -> idle

and daemon threads through `copy` (read) and `pull`, `answer`, `drop`, `refresh`
(write).  The INTERRUPT that an interrupted requester sends is one step: its
ticket is private until it is queued.

What the environment may do is a constant: `DeathCauses` (close, timeout, ioctl,
kill, short read), `Faults` (signals, messages and answers that cannot be copied, failing
allocation), `Kinds` of request.  `RacyTicketer` splits `ticketer++` into its read and its
write, which the code performs without a lock; `ReuseMemory` lets the allocator
return the memory of a destroyed ticket that a thread still points to.  Both are
FALSE in the runs: the properties do not survive them, and the hazards they stand
for are recorded in PROJECT.json.  The theorems leave them open (section 4).

`fuse_standard_handler` is the handler of an awaited request and fsync's of one
that nobody waits for; it drops its ticket.  Three paths that overwrite an answered
ticket instead, and so leak it, are not modelled: `fuse_internal_forget_callback`
(`fuse_internal.c:1463`), `fuse_internal_forget_send` after a create that falls
back to mknod (`fuse_vnops.c:436` and `1581`), and the second `fdisp_init` of such a
create (`fuse_vnops.c:442`).

Bounds.  `MaxRequests` bounds the requests ever made and `Tickets` the memory for
tickets.  The ticket-recycling races need one ticket, a requester that gave up
on it and another that reuses it: two requesters and three requests, and a free
list of one so that its limit is reached.  The panic after a timeout needs a
third requester.  INTERRUPT messages take tickets of their own, so runs with
signals have two or three.  `ipc_end` has `MaxTickets` 1, so that requests find
the limit reached (`FetchOverLimit`).

Fairness.  `KernelRuns`: a thread in the kernel goes on until it sleeps or
returns, and the draining of `aw_head` finishes; the code has no unbounded loop
there and locks are held for a bounded time.  It is the fairness of `KernelSpec`,
under which `DrainReleasesAll` holds whatever the daemon does.  The other two
liveness properties add what they need as an hypothesis: `RequestsAreServed`
assumes that the daemon reads messages and answers each one it has read
(`DaemonRuns`) and that the session lives, `RequestsEndInTime` that `msleep` with
a timeout returns (`TimersRun`).  None assumes that a signal, a failure or a death
happens.

### NodeLocking

State.  A node is its address, an integer, because addresses decide the order of
unrelated nodes.  `parent` is `parent_nodeid`, which the code sets at the first
lookup and never again; `links` is what the daemon thinks of the tree and what
decides which renames the kernel asks for.  `owner` maps a node to the holder of
its `nodelock`.  A thread's `list` is the order in which `fusefs_lockpair` or
`fusefs_lockfour` takes the locks; each `Lock` step takes one.  When it has them
all it takes the big lock (`TakeBiglock`), runs, may drop and retake the big lock
around calls into the kernel, and unlocks in the order of `fusefs_unlockfour`,
which is computed independently of the order of locking.  `Unnoded` is an
operation that takes the big lock only: paging, strategy, reclaim, revoke and the
block maps.  Such an operation also runs nested, on a thread that has released
the big lock around a call into the kernel; it then does what `RetakeBiglock` and
`DropBiglock` do.

Four operations call `ubc_msync` or `cluster_push` without releasing the big
lock: exchange, fsync, close and an open that purges pages (`fuse_vnops.c:2042`).
If there are dirty pages these call pageout or strategy on the same thread, and
the wrapper waits for the lock its own thread holds.  That step would end every
behaviour it occurs in, so it is not an action here; it is listed as a hazard.

`C_NOEXISTS` is never set in this version, so `fusefs_lock` cannot fail and the
roll-back paths are unreachable.  `fusefs_lockpair` is given two files only
(exchange), `fusefs_lockfour` the four vnodes of a rename.

Bounds.  Four nodes are as many as an operation locks; every assignment of
types and parents to them, and with `HardLinks` of links, is an initial state.
Two threads on three nodes already have every pair of orders in conflict: two
files of one directory, given either way round to exchanges and renames.  The
runs have no hard links; what holds with them is proved (section 4), and what
does not is told in section 3.  Fairness: a lock
that is released again and again is eventually granted (strong fairness of
`Advance`), and a running operation returns.

### HNodeTable

State.  `node` and `vnode` are memory: an `HNode` is allocated, inserted, freed
and its memory used again; a vnode's memory is used again under another `vid`.
What `gHashMutex` protects is one step.  `Candidate` and `GetVnode` are apart
because the mutex is released between them; so are `NeedNode`, `Alloc` and
`InsertNode`, and everything around `vnode_create`.  `WaitForAttach` is `msleep`
on the address of the node; `HNodeAttachComplete` wakes all its sleepers.

The kernel's side is external: `vnode_getwithvid` waits while a vnode is being
reclaimed and fails when it has another identity, a vnode is reclaimed only when
no thread holds an iocount on it, and `vnode_create` may fail.  `BigLock` adds
the big lock of the 64-bit build, which lookups hold from before the search and
release around `vnode_create` only.

Bounds.  Three threads, one inode with two forks, memory for two `HNode`s and
two vnodes, each used twice: enough for a lookup, the reclaim that overtakes it
and the creation that takes the memory over.  One inode suffices, because nodes
of different inodes share nothing but the table and their vnodes' memory, and
the latter also changes hands between the forks.

### FuseSession

State.  One device unit.  `sess` maps each session (a `fuse_data`) to
`FSESS_OPENED`, `FSESS_DEAD`, `FSESS_INITED`, `mount_state` and the one request a
mount or an unmount has under way; `data` is `fdev->data`; `global`, `local` and
`big` are the owners of `fuse_device_mutex`, of `fdev->mtx` and of the session's
big lock; `fds` are the processes that have the device open, and `volume` is the
kernel's own view of the mount.  `destroyed` is history: the sessions freed.

A step is what a thread does between two points where it may wait, so open is
four steps (the look at `fuse_interface_available`, the global mutex, the
device's, and the allocation), close is three, and mount and unmount are as many
as they have waits and calls.  The daemon forks the mount helper, which inherits
the device; both may exit at any point, and the last one out closes the device
(`Exit`).  The helper calls `FUSEDEVIOCSETDAEMONDEAD` if the mount fails.  A request
of INIT, STATFS or DESTROY is answered, refused, cut off by the draining of the
queue, interrupted by a signal, or timed out.

Unmount ends in three steps.  `Unmounted` clears the device's data if the daemon has
closed it, `UnmountUnlock` releases the device's mutex, and `Dounmount` is the kernel
dropping the volume after the function has returned.  `fusefs_stop` is three steps
too: `Stop` and `StopDevices` look at the devices and free them, under the global
lock only, and `StopVfs` is `vfs_fsremove`, which refuses while there is a volume or
an unmount still to return.  The extension may thus stay without devices
(`installed` is "no_devices") until it is stopped again.

In that window the code does two things that no property forbids.  The stop is not
all or nothing.  And `fuse_devices_stop`, which looks at `usecount` and at the data
but takes no device's mutex, frees the mutex (`fuse_device.c:578`, after "No device
is in use") that the unmount still holds and is about to release: `UnmountUnlock`
then ends in "crashed".  `NothingOutlivesStop` says that such an unmount is all that
may be left: every session is destroyed, and no process opens, has open, closes or
mounts the device.

Bounds.  Two sessions, so that one may linger (mounted, its daemon gone) while
another daemon opens the device.  `MaxMounts` is one: a session is mounted by one
helper, which is how the library uses it.  With two the model deadlocks: mount
takes the device's mutex and then the big lock (`fuse_vfsops.c:438`), while
unmount and the end of mount take the device's mutex with the big lock held
(732, 563, 600).  A second mount of the open device while the first is ending
waits for ever.  That is recorded as a hazard and found by changing that constant.

Fairness.  Threads in the kernel go on and mutexes serve whoever waits (strong
fairness, because each waiter's turn may come and go), `daemon_timeout` is set,
and `mount_fusefs` exits when it is done.  No process has to exit otherwise, and
the administrator need not kill anything.

### FuseVnode

State.  One file.  `known` is the daemon's lookup count, `nlookup` the vnode's,
`forgets` what is on its way; `opened` are the handles the daemon has given out,
`fufh` the three slots of the vnode with their counts.  `creator` stands for
`FN_CREATING`: the handle that CREATE returned is stashed in the slot of RDWR until
the creator opens the file, and everybody else who opens it sleeps.  `lost` are
handles whose OPEN or CREATE was interrupted or whose answer was refused: the
kernel cannot release what it was not told of.

An operation holds the node lock and the big lock while it waits for the daemon;
it is one step unless it lets go of the big lock, as mmap does for its preflight,
or sleeps, as a contender for a file in the making does.  Paging and reclaiming
take the big lock only and so run during a preflight.

Bounds.  Two threads, three handles (one for each mode), at most two lookups
counted, one direction of paging.  Mapping adds to a count that unmapping never
takes off, so `MaxUses` bounds the uses at which one may still map.  One thread
creates: two threads that create one file at once overwrite a handle in the slot
of RDWR that is stashed or in use, and `OneReleasePerOpen` fails.  Nothing in the
repository says what should happen there; the hazard's note records it.

Fairness.  `VnodesGo`: a vnode nobody uses is made inactive and reclaimed, at the
latest by the unmount.  `vnode_creating` also assumes that threads in open and
mmap go on.

### UnixfsInodes

State.  A cell is an inode's memory; `num` is its number (none if it is free),
`count`, `initialized`, `attaching` and `waiting` are `I_count` and the three
flags.  `table` is the hash table without its chains, whose order does not matter.
A thread serves one request: `ip` is the inode it holds, `dp` the directory
whose entries it walks, `spare` the `new_node` it has allocated and not yet
inserted, and `todo` the entries still to look at.  `ihash_lock` is held for one
step; `iget` is several, because it releases the lock to allocate and to wait, and
its caller reads the inode from the disk without it.

A read of an inode may fail if its block is `Unreadable`.  `unixfs_inodelayer_ifailed`
then takes the cell off the table, wakes whoever waits and frees it, though they
hold pointers to it: `iget` says that not looking the inode up again "works" for a
read-only file system (`unixfs_internal.c:180-185`).  `crashed` says how the
daemon has ended: "undefined" when a cell is freed that others refer to, or is
removed from the table twice; "null" when `unixfs_ll_open` goes on with the null
pointer after it has answered ENOENT; "abort" when there is no memory.  Behaviours
end there.  `stranded` is history: a read has failed under a waiter.

V7 stands for all file systems of UnixFS: they call the layer in the same order.
The archives that insert their inodes when they are mounted are not modelled, nor
how blocks are found.  `unixfs_ll_readlink` answers twice if the read fails, which
has no effect on the inode table and is not modelled either.

Bounds.  Two threads, a directory that names itself and a file, one open file and
four cells, the most that are ever in use.  Both threads can hold, want, read and
fail to read either inode.  The theorems need no bounds.

Fairness.  `Advance`: threads in the inode layer go on.  No request has to be
sent, no file to be released, and no memory to be exhausted.

## 3. Runs

Seven runs pass.

| run | question | properties |
|---|---|---|
| `ipc_ownership` | signals, failing copies and allocations, awaited and unawaited requests, FORGETs, a daemon that exits; the limit of the free list | `TypeOK`, `OwnAnswer`, `UniqueReserved`, `NoReuseUnrefreshed`, `FreeListSound`, `NoLeak`, `DisarmsOwnRequest`, `ImplementsFuseRequest` |
| `ipc_end` | a daemon that answers, one that hangs, and deaths by kill, timeout, ioctl, short read, too many tickets | `RequestsAreServed`, `RequestsEndInTime`, `DrainReleasesAll`, `NoLostWakeup` |
| `locking_live` | operations on no node, on one and two, and renames within a directory | `TypeOK`, `NoLockCycle`, `LocksAccountedFor`, `EveryOperationEnds` |
| `hnode_table` | lookups, creations, failures and reclaims of one inode | `TypeOK`, `OneNodePerInode`, `OneAttach`, `CountIsExact`, `NoDangling`, `NoLeak`, `RightVnode`, `SleepersWillWake` |
| `session` | open, mount, unmount, close and stop in any order, processes exiting at any point | `TypeOK`, `NoUseAfterDestroy`, `NoSessionLeak`, `NothingOutlivesStop`, `MountReturns`, `SessionEnds` |
| `vnode` | opening, creating, mapping, closing, paging, the vnode's end and the session's | `TypeOK`, `OneReleasePerOpen`, `InUseIsOpen`, `NeverOverForgotten`, `UnusedReleased` |
| `unixfs` | threads that want the same inodes, with blocks that cannot be read | `TypeOK`, `CellsAccountedFor`, `RightInode`, `UndefinedOnlyIfStranded`, `RequestsEnd` |

`UniqueReserved`, `FreeListSound`, `NoLeak` and `OneReleasePerOpen` speak of live
sessions: the code gives tickets and handles up when the session is dead.
`RightInode` (in its second half) and `RequestsEnd` exclude behaviours in which a
read has failed under a waiter, after which a thread may wait for a cell that is
another inode's.

A run that ends with deadlock checking off is one in which the system may stop:
all requests made, all sessions used, all threads dead in a panic.

Five runs are findings: each states what a comment of the code says, and TLC shows
how the code does otherwise.

| run | claim | property |
|---|---|---|
| `ipc_panic` | "ticket reused without being refreshed" is never reached | `NoReuseUnrefreshed` |
| `locking_parent` | "locked in fusenode parent-child order" | `ParentFirst` |
| `hnode_biglock` | whoever claims an attach completes it "at some time in the future" | `AttachesEnd` |
| `vnode_panic` | `fuse_filehandle_get` is called by those only who have no handle, "else we panic" | `NoPanic` |
| `vnode_creating` | the creator of a file wakes up all contenders | `ContendersWake` |

`ipc_panic`.  After a daemon timeout `fticket_wait_answer` marks the ticket
answered and `fdisp_wait_answ` drops it, although it is still on `aw_head`.  If
the daemon answers after all, `fuse_standard_handler` finds `FT_ANSW` on (or sets
it on) a ticket that is free or serves another request.  The next requester that
gets it drops it while it waits, and one that had passed its look at `FSESS_DEAD`
reaches "ticket reused without being refreshed".

`locking_parent`.  `fusefs_isordered` puts a parent before its child and falls
back to addresses.  That relation is not transitive (a parent at a high address,
its child at a low one, an unrelated node between), and `fusefs_lockfour` merges
two pairs as if it were.  A rename between directories may lock a node before its
parent; with a second rename or exchange under way TLC also finds a deadlock, so
`NoLockCycle` is checked without renames across directories.

It is checked without hard links too, because they have the same effect:
`parent_nodeid` names the directory through which a file was found first.  Say
that directory 1 is the parent of file 3, which is also in directory 4 next to
file 2.  A rename of 3 within directory 4 finds 3 and 4 unrelated and locks 3
first, by its address, while one of 3 over 2 locks 4, 2, 3.  TLC finds this
deadlock of two threads when `HardLinks` is TRUE and `LastNode` is 4 in
`MCLockingLive.cfg`; with three nodes it takes three threads.  No comment in the
repository says that this cannot happen, so it is not a run but a note on the
hazard.

`hnode_biglock`.  A lookup that finds `attachOutstanding` sleeps in `msleep`,
which releases `gHashMutex` but not the big lock its vnode operation holds; the
thread it waits for has released the big lock around `vnode_create` and needs it
back before it can call `HNodeAttachVNodeSucceeded`.  The same holds of a lookup
that waits in `vnode_getwithvid` for a vnode whose reclaim needs the big lock.
Lookups of one directory are serialised by its node lock, so it takes a hard link
or two names of one inode.

`vnode_panic`.  `fuse_vnop_mmap` finds no handle of the mode it maps, releases the
big lock while it asks the daemon for permission, and calls `fuse_filehandle_get`
without looking again.  Paging holds no node lock and opens a handle of the same
mode meanwhile.

`vnode_creating`.  A thread that opens a file between its creation and its
creator's open sleeps in `fuse_msleep`, which releases `createlock`; its wrapper's
node lock and big lock stay held, and the creator's open needs both.

## 4. Proofs

### FuseIpc

For every value of the constants and any number of threads, tickets and requests.
Without further assumptions: `TypeCorrect`, and `FreeListIsBounded`
(`fuse_ticket_drop` decides whether the list is full in one critical section and
pushes in another, so every thread may overshoot by one).  The latter counts the
threads between decision and push: free tickets plus those threads stay below
the limit plus the number of threads.  It assumes that there is a thread.

For calm behaviours of orderly sessions, module `FuseIpcOwnership`: `Ownership`
(the invariant itself), `NoPanic`, `FreeListIsSound`, `AnswersAreOwn`,
`UniquesAreReserved`, `WakeupsAreKept`, `NoTicketLeaks` and `DisarmsOwn`.

An orderly session (`Orderly`) ends by the closing of the device only and has no
`fuse_max_tickets` limit.  That is needed: after a timeout, an ioctl or a kill
tickets are dropped while they wait on `aw_head`, which is what `ipc_panic` shows.

`RacyTicketer` and `ReuseMemory` may have any value: the requesters may read and
write `ticketer` in separate steps, and the memory of destroyed tickets may be
allocated again, as in the code.  What `CalmSpec` excludes is the one step in which
such a race is lost, a `ticketer++` that overwrites another one, or a new ticket put
where a thread still points.  Since all of these theorems are of safety, they say
that a session keeps the property until the first step of that kind; the step itself
breaks `UniqueReserved` or `DisarmsOwnRequest`, as TLC shows if the constants are
TRUE, and the code does nothing to prevent it.

The inductive invariant `IInv` (module `FuseIpcInvariant`) says who owns each
ticket.  None of the properties is inductive alone: that a requester reads its
own answer depends on no other thread holding its ticket, which depends on
tickets being dropped once, which depends on exactly one of requester and daemon
seeing the other give up, which depends on what `tk_aw_handler` and the queues
say of a ticket in each state.  `Base` holds in every state; `Live` holds until
the session is dead, after which tickets may be abandoned but are no longer
fetched.  The proof has one lemma per action and, inside, one step per conjunct
the action disturbs.

The refinement, `Refines`: the same behaviours implement `FuseRequest`, so that a
request is asked once, answered once at most, and succeeds only with the answer
to its own number.  `IInv` does not suffice, because it speaks of tickets and not
of what was answered before: `AnswersAreAskedFor` adds `RInv`, that requests have
numbers of their own and that no ticket on `aw_head`, and no request on its way
there, carries one that has been answered, in a live session.  Each action of
`FuseIpc` is then a step of `FuseRequest` under the mapping of `FuseIpcRefines`
(`AbstractStep`) or leaves its variables alone.

### NodeLocking

`TypesHold` and `LocksAreAccountedFor`, for any number of threads and nodes, any
tree, any links, and renames within and across directories.  An operation locks
what it was given, each node once, and unlocks each once, although
`fusefs_unlockfour` computes its order anew: the proof shows, for two and for four
nodes, that the lists of `LockPair`, `LockFour` and `UnlockFour` hold the same nodes
and none twice, whichever are equal or null.

`LocksHaveNoCycle` assumes `~CrossDirectory` and `~HardLinks`; section 3 says why.
`IInv` does not order the nodes of a list.  `OInv` adds that every list follows a
relation `Before` (a parent before its child; of two files, and of two directories
in one directory, the smaller address first), and what keeps it so: a node is
nowhere but in its parent, renames are within a directory, and parents have no
circle.  `Before` is not transitive, so that it has no circle takes an argument
(`BeforeHasNoCircle`): in a set of nodes each of which is before another of the
set, the largest file cannot be, so all are directories; the largest child of each
directory among them must have a child of its own there; and so some of them would
be closed under parents.  The nodes that the threads of a circle wait for are such
a set.

### HNodeTable

All eight properties of the run, for any number of threads, inodes, forks, nodes
and vnodes, with the big lock or without, from `HNodeAssumption` alone:
`TypesHold`, `InodesHaveOneNode`, `AttachesAreExclusive`, `CountsAreExact`,
`NothingDangles`, `NothingLeaks`, `LookupsAreRight` and `SleepersAreWoken`.

`IInv` is needed because every property leans on another.  A lookup that has
released the mutex has a vnode and a `v_id` which may be another's by the time it
calls `vnode_getwithvid`; that the call then fails, or gives the right vnode,
needs `Using` (an old `v_id` never comes back, and the same one means the same
vnode until it is free), which needs that a vnode with an HNode is in a fork of
it or in the hands of the thread about to put it there (`Linked`), which needs
that one thread attaches (`Attached`), one thread reclaims (`Reclaiming`), and
that memory outside the table is its allocator's (`Owned`).  `Counted` says what
`forkVNodesCount` counts, and thereby when a node leaves the table.

### FuseSession

`TypesHold`, `SessionsOutliveTheirUsers`, `SessionsAreFreed` and `StopComesLast`,
from `SessionAssumption` alone: any number of daemons, helpers and sessions, and
any number of mounts a helper may ask of one session, with which the model
deadlocks but still frees nothing too early.

Three parties may be the last to leave a session (`fuse_device_close`, a mount that
fails, `fuse_vfsop_unmount`) and each decides from `FSESS_OPENED` and `mount_state`.
`IInv` says what these mean at each point of each party: who has the device open
(`Sharing`, `Exclusive`), that the flag is on until the last close
(`OpenedUntilClosed`), that `mount_state` is on as long as there is a mount point
(`MountPoints`, `Volumes`), and that `fdev->data` is the one session not destroyed
(`OneSession`).  `Counted` says what `fuse_mount_count` counts and `Stopping` that
no process and no session is left once `fusefs_stop` has begun to undo things, and
no volume once the file system is gone.

### FuseVnode

For any threads and handles: `TypesHold`, with the bound of the use counts, and
`LookupsAreCovered`, that the vnode and the FORGETs under way never take back more
than the daemon has counted.  `VnodeAssumption` makes the set of threads finite,
since the bound of a use count has one use for each of them.

`ReleasesMatchOpens` and `WhatIsUsedIsOpen` assume `OneCreator`, that one thread at
most creates the file.  CREATE is sent without `O_EXCL`, so two may succeed, and
TLC shows both properties to fail.  `HandleInv` says that nothing is open of a
file that does not exist (`Nonexistent`), that in the making the creator's handle
in the slot of RDWR is the only one (`Making`, `InTheMaking`), that a use count is
at least the number of those who have the file open and the mappings in its mode
(`Counted`), and that whoever is past the panic has a handle (`PanicValid`).

`SleepersAreNotWoken` is the finding of `vnode_creating` for every instance: a
thread that sleeps for the creator never gets to run.

### UnixfsInodes

For any number of threads, inodes, cells and open files, of which the threads,
cells and open files are finite: `TypesHold`, `CellsAreAccountedFor`,
`InodesAreRight` and `UndefinedNeedsStranding`, one for each safety property of the
run.

None is inductive.  That a thread frees a cell nobody else refers to needs that
`I_count` is the number of those who do (`Counting`), which needs that each has got
the cell from the table and that no cell is in the table twice or in the hands of
two allocations (`Heap`, `Failing`), and that whoever is not reading holds an inode
that has been read (`Flags`).  `IInv` is their conjunction with `TypeOK` and
`UndefinedOnlyIfStranded`; it is claimed until memory is misused, since afterwards
nothing holds, and its conjunct `Hashed`, that all that is referred to is in the
table, until a read has failed under a waiter, since the waiter then refers to a
freed cell.  The counts are cardinalities of sets of referrers; the lemmas
`CountExcept` and those after it say how they change when one thread or file
changes what it refers to.

## 5. Only model-checked

Every safety property of the passing runs is proved, under the assumptions of
section 4.  What remains for TLC:

- Liveness (`RequestsAreServed`, `RequestsEndInTime`, `DrainReleasesAll`,
  `EveryOperationEnds`, `MountReturns`, `SessionEnds`, `UnusedReleased`,
  `RequestsEnd`), which is out of the prover's reach, as are `ENABLED` and deadlock.
- The runs that are findings, which are counterexamples; of one the theorem
  `SleepersAreNotWoken` is the general form.
- Sessions that are not orderly: `ipc_end` checks liveness and `NoLostWakeup` with
  kills, timeouts, ioctls and the limit on tickets, under which the ownership of
  tickets is not kept.

Starvation is not excluded in `HNodeTable`: a lookup that waits for an attach may
find, each time it wakes, that another thread has claimed the fork again and
failed again.  Hence there is no property that every lookup ends.

## 6. Plan

Done: the six models, the abstract specification of requests, and proofs of all
their safety properties.  Next, in this order:

1. Proofs: `Orderly` is stronger than each theorem needs; with an `ms_head` of
   tickets that the session's end left behind, `OwnAnswer` and `NoLostWakeup` may hold
   under more causes of death.  `NeverOverForgotten` and `NoUseAfterDestroy` as
   refinements of abstract reference counts.
2. File sizes: `fvdat->filesize` is written by lookups of the directory, by
   truncation, by writes (which release the big lock in `cluster_write`,
   `fuse_vnops.c:3601`) and by the device's ioctl, under different locks.  A
   write that extends the file sets the size before it calls `cluster_write`
   (3577) and does not set it back if that fails, so that an append that follows
   may leave a hole; cached attributes overrule the size (`fuse_internal.h:590`).
3. An abstract specification of the table, a partial map from inode and fork to
   vnode, implemented by `HNodeTable`.
4. Readers of the device that sleep, `wakeup_one`, and select.

## 7. Not modelled

The 10.4 kext is an older version of the same code.  The preference pane, the
autoinstaller, packaging and the load helper keep no state shared with the kernel
extension; of the mount helper and the libfuse patches there is only what
`FuseSession` needs, that the helper inherits the device and calls mount.  The
other sample file systems are examples of daemons, whose answers the models leave
free.

The Objective-C SDK keeps a status of the volume that three threads share without
a lock: the one that mounts, libfuse's callbacks `fuseInit` and `fuseDestroy`, and
the one that polls until the volume is there (`waitUntilMounted` of
`GMUserFileSystem.m`), which
may announce a mount after the volume has gone.  It rests on run loops and
notifications outside the repository and is left for later.

Within the kernel extension: the contents of messages and their sizes, attribute
conversion and caching, file sizes, directories' handles, extended attributes,
knotes and sysctls, what rename, remove and link do beyond their locks,
`fuse_vfsop_sync` and `fuse_vfsop_setattr`, `HNodePrintState` (debugging; nothing
calls it) and `HNodeExchangeFromFSNode` (its only call is commented out).

Small departures inside what is modelled.  `Page` of `FuseVnode` does nothing while
the file has a creator, where strategy sleeps and tries again
(`fuse_internal.c:1028`); no property depends on that sleep.  `ReadFails` of
`UnixfsInodes` leaves out the abort of `bread` for a block number out of range
(`ancientfs_v7.c:299`), which ends the daemon as the aborts that are modelled do.
`DestroyEnds` of `FuseSession` lets the wait for DESTROY end at any time, because a
`daemon_timeout` is assumed.
