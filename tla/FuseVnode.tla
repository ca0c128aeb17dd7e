----------------------------- MODULE FuseVnode -----------------------------
(***************************************************************************)
(* The life of one regular file in the kernel: the lookups that count it,  *)
(* the handles through which it is open at the daemon, and what becomes of *)
(* both when the vnode goes inactive and is reclaimed                      *)
(* (core/10.5/fusefs/fuse_vnops.c, fuse_file.c, fuse_internal.c,           *)
(* fuse_node.c).                                                           *)
(*                                                                         *)
(* The vnode has three handles, one per access mode.  Every open and every *)
(* mapping of a mode shares its handle; paging I/O takes one that is there,*)
(* or opens one.  The daemon sees OPEN, CREATE and RELEASE.                *)
(*                                                                         *)
(* An operation holds the node's lock and the volume's big lock, and keeps *)
(* both while it waits for the daemon; paging and reclaiming hold the big  *)
(* lock only.  So a step is what a thread does between two points at which *)
(* it lets go of the big lock.  HNodeTable has what happens in between when*)
(* a vnode is made.                                                        *)
(***************************************************************************)
EXTENDS Integers, FiniteSets

CONSTANTS
  Threads,     (* Threads that open, map and close the file.               *)
  Creators,    (* Those of them that open it with O_CREAT.                 *)
  OpenTypes,   (* Modes they open it in ...                                *)
  MapTypes,    (* ... and map it in.                                       *)
  Paging,      (* Directions of paging I/O, "read" and "write".            *)
  Handles,     (* Handles the daemon gives out.  Bounds the model.         *)
  MaxKnown,    (* Lookups the daemon counts.  Bounds the model.            *)
  MaxUses,     (* Uses of a handle at which no mapping is added to it, as  *)
               (* unmapping takes none off it.  Bounds the model.          *)
  NoOne        (* The owner of a free lock, and no mode.                   *)

Types == {"RDONLY", "WRONLY", "RDWR"}

ASSUME VnodeAssumption ==
  /\ Creators \subseteq Threads /\ NoOne \notin Threads /\ NoOne \notin Types
  /\ OpenTypes \subseteq Types /\ MapTypes \subseteq Types
  /\ Paging \subseteq {"read", "write"}
  /\ MaxKnown \in Nat /\ MaxUses \in Nat \ {0} /\ IsFiniteSet(Threads)
  /\ NoOne \notin Handles

VARIABLES
  exists,      (* The daemon has the file.                                 *)
  opened,      (* The handles it has given out and not seen released.      *)
  known,       (* Its lookup count of the file.                            *)
  forgets,     (* What the FORGETs on their way to it add up to.           *)
  dead,        (* FSESS_DEAD                                               *)
  live,        (* The file has a vnode.                                    *)
  active,      (* The vnode was open since it last was inactive.           *)
  fufh,        (* fvdat->fufh: mode -> use count and handle.               *)
  creator,     (* fvdat->creator while FN_CREATING is set.                 *)
  nlookup,     (* fvdat->nlookup                                           *)
  node, big,   (* Owners of the node's lock and of the big lock.           *)
  lost,        (* Handles whose OPEN or CREATE nobody waited for, or whose *)
               (* answer was refused.                                      *)
  pc,          (* Thread -> where it is.                                   *)
  file, map    (* Thread -> the mode of its open file and of its mapping.  *)

daemon == <<exists, opened, known, forgets, dead>>
vnode  == <<live, active, fufh, creator, nlookup>>
locks  == <<node, big>>
thread == <<pc, file, map>>
vars   == <<daemon, vnode, locks, lost, thread>>

Closed == [count |-> 0, fh |-> NoOne]

Init ==
  /\ exists \in BOOLEAN /\ opened = {} /\ known = 0 /\ forgets = 0
  /\ dead = FALSE
  /\ live = FALSE /\ active = FALSE /\ fufh = [ty \in Types |-> Closed]
  /\ creator = NoOne /\ nlookup = 0
  /\ node = NoOne /\ big = NoOne /\ lost = {}
  /\ pc = [t \in Threads |-> "idle"]
  /\ file = [t \in Threads |-> NoOne] /\ map = [t \in Threads |-> NoOne]

Valid(ty) == fufh[ty].count > 0

Referenced ==
  \E t \in Threads : pc[t] \notin {"idle", "missing"} \/ map[t] # NoOne

Goto(t, from, to) == pc[t] = from /\ pc' = [pc EXCEPT ![t] = to]

(* The vnode operations take both locks; t may have them from before.      *)
Locked(t) == node \in {t, NoOne} /\ big \in {t, NoOne}
Leave     == node' = NoOne /\ big' = NoOne

-----------------------------------------------------------------------------
(* Handles.                                                                *)

(* Slip: the handle is shared and not counted.                             *)
UseUncounted(ty) == UNCHANGED fufh

Use(ty) == fufh' = [fufh EXCEPT ![ty].count = @ + 1]

(* Which handle the daemon gives out is no matter, if it is a new one.     *)
Fresh == CHOOSE h \in Handles : h \notin opened

Opened == Handles \ opened # {} /\ opened' = opened \cup {Fresh}

(* fuse_filehandle_get: the daemon opens the file, or does not.            *)
Get(ty) == Opened /\ fufh' = [fufh EXCEPT ![ty] = [count |-> 1, fh |-> Fresh]]

GetRefused == UNCHANGED <<opened, fufh, lost>>

(* A signal or a timeout ends the wait, and the daemon opens the file.     *)
GetCut == Opened /\ lost' = lost \cup {Fresh} /\ UNCHANGED fufh

(* fuse_filehandle_put sends RELEASE, unless the session is dead.          *)
Put(handles) == opened' = IF dead THEN opened ELSE opened \ handles

(* Slip: one RELEASE per close.                                            *)
LastUseButAny(ty) == TRUE

LastUse(ty) == fufh[ty].count = 1

ValidHandles == {fufh[ty].fh : ty \in {ty \in Types : Valid(ty)}}

(* Slip: handles are put at the last close only.                           *)
NoneLeft == {}

(* The handles that are put when the vnode is not used any more.           *)
LeftOpen == ValidHandles

Reset == fufh' = [ty \in Types |-> [fufh[ty] EXCEPT !.count = 0]]

-----------------------------------------------------------------------------
(* fuse_vnop_lookup.                                                       *)

(* A fresh vnode has no lookups and no handles.                            *)
Created(who) ==
  IF live THEN UNCHANGED <<live, active, creator>>
  ELSE live' = TRUE /\ active' = FALSE /\ creator' = who

LookupMisses(t) ==
  /\ ~dead /\ ~exists /\ big = NoOne /\ t \in Creators
  /\ Goto(t, "idle", "missing")
  /\ UNCHANGED <<daemon, vnode, locks, lost, file, map>>

(* The name cache has it, which fuse_vget_i fills.                         *)
LookupCached(t) ==
  /\ ~dead /\ live /\ nlookup > 0 /\ big = NoOne
  /\ Goto(t, "idle", "found")
  /\ UNCHANGED <<daemon, vnode, locks, lost, file, map>>

Lookup(t) ==
  /\ ~dead /\ exists /\ known < MaxKnown /\ big = NoOne
  /\ Goto(t, "idle", "found")
  /\ known' = known + 1 /\ nlookup' = nlookup + 1
  /\ Created(NoOne)
  /\ UNCHANGED <<exists, opened, forgets, dead, fufh, locks, lost, file, map>>

(* Slip: the vnode counts what is given back.                              *)
Recount == nlookup' = nlookup + 1

GivenBack == UNCHANGED nlookup

(* No vnode for what the daemon found: it is given back.                   *)
LookupFails(t) ==
  /\ pc[t] = "idle" /\ ~dead /\ exists /\ known < MaxKnown /\ big = NoOne
  /\ known' = known + 1 /\ forgets' = forgets + 1 /\ GivenBack
  /\ UNCHANGED <<exists, opened, dead, live, active, fufh, creator, locks,
                 lost, thread>>

(* Nobody waited for the answer, or the entry was no good.                 *)
LookupCut(t) ==
  /\ pc[t] = "idle" /\ ~dead /\ exists /\ known < MaxKnown /\ big = NoOne
  /\ known' = known + 1
  /\ UNCHANGED <<exists, opened, forgets, dead, vnode, locks, lost, thread>>

-----------------------------------------------------------------------------
(* fuse_vnop_create.  It does not count the lookup.                        *)
Creating(t) ==
  /\ ~dead /\ known < MaxKnown /\ big = NoOne
  /\ exists' = TRUE /\ known' = known + 1
  /\ UNCHANGED <<dead, nlookup, locks, file, map>>

(* The handle is stashed for the open that follows.                        *)
Create(t) ==
  /\ Goto(t, "missing", "created") /\ Creating(t)
  /\ Get("RDWR") /\ Created(t)
  /\ UNCHANGED <<forgets, lost>>

(* MKNOD, where the daemon has no CREATE.                                  *)
CreateMknod(t) ==
  /\ Goto(t, "missing", "created") /\ Creating(t)
  /\ Created(NoOne)
  /\ UNCHANGED <<opened, forgets, fufh, lost>>

(* No vnode: RELEASE, and from its callback FORGET.                        *)
CreateFails(t) ==
  /\ Goto(t, "missing", "idle") /\ Creating(t)
  /\ forgets' = forgets + 1
  /\ UNCHANGED <<opened, live, active, fufh, creator, lost>>

CreateCut(t) ==
  /\ Goto(t, "missing", "idle") /\ Creating(t)
  /\ GetCut
  /\ UNCHANGED <<forgets, live, active, creator>>

(* It panics if the session has died since the lookup.                     *)
CreateDead(t) ==
  /\ Goto(t, "missing", "dead") /\ dead
  /\ big = NoOne /\ big' = t
  /\ UNCHANGED <<daemon, vnode, node, lost, file, map>>

(* The file is there after all, and the lookup is tried again.             *)
CreateTooLate(t) ==
  /\ Goto(t, "missing", "idle") /\ (exists \/ dead)
  /\ UNCHANGED <<daemon, vnode, locks, lost, file, map>>

-----------------------------------------------------------------------------
(* fuse_vnop_open.                                                         *)

OpenDead(t) ==
  /\ pc[t] \in {"found", "created"} /\ dead /\ Locked(t)
  /\ pc' = [pc EXCEPT ![t] = "idle"]
  /\ UNCHANGED <<daemon, vnode, locks, lost, file, map>>

(* The creator moves the stashed handle to the slot of its mode, and wakes *)
(* whoever sleeps on it.                                                   *)
OpenStashed(t) ==
  /\ pc[t] \in {"found", "created"} /\ ~dead /\ Locked(t)
  /\ creator = t
  /\ \E ty \in OpenTypes :
       /\ fufh' = [fufh EXCEPT !["RDWR"].count = 0,
                     ![ty] = [count |-> 1, fh |-> fufh["RDWR"].fh]]
       /\ file' = [file EXCEPT ![t] = ty]
  /\ pc' = [s \in Threads |-> IF s = t THEN "open"
                              ELSE IF pc[s] = "asleep" THEN "woken" ELSE pc[s]]
  /\ creator' = NoOne /\ active' = TRUE
  /\ UNCHANGED <<daemon, live, nlookup, locks, lost, map>>

(* Anybody else sleeps, with the locks.                                    *)
OpenSleeps(t) ==
  /\ pc[t] \in {"found", "created"} /\ ~dead /\ Locked(t)
  /\ creator \notin {t, NoOne}
  /\ pc' = [pc EXCEPT ![t] = "asleep"]
  /\ node' = t /\ big' = t
  /\ UNCHANGED <<daemon, vnode, lost, file, map>>

OpenSignalled(t) ==
  /\ Goto(t, "asleep", "idle") /\ Leave
  /\ UNCHANGED <<daemon, vnode, lost, file, map>>

Opening(t) ==
  /\ \/ pc[t] \in {"found", "created"} /\ ~dead /\ creator = NoOne
     \/ pc[t] = "woken"
  /\ Locked(t) /\ Leave

OpenShared(t) ==
  /\ Opening(t)
  /\ \E ty \in OpenTypes : Valid(ty) /\ Use(ty) /\ file' = [file EXCEPT ![t] = ty]
  /\ pc' = [pc EXCEPT ![t] = "open"] /\ active' = TRUE
  /\ UNCHANGED <<daemon, live, creator, nlookup, lost, map>>

OpenGets(t) ==
  /\ Opening(t) /\ ~dead
  /\ \E ty \in OpenTypes : ~Valid(ty) /\ Get(ty) /\ file' = [file EXCEPT ![t] = ty]
  /\ pc' = [pc EXCEPT ![t] = "open"] /\ active' = TRUE
  /\ UNCHANGED <<exists, known, forgets, dead, live, creator, nlookup, lost, map>>

OpenFails(t) ==
  /\ Opening(t) /\ \E ty \in OpenTypes : ~Valid(ty)
  /\ GetRefused \/ (~dead /\ GetCut)
  /\ pc' = [pc EXCEPT ![t] = "idle"]
  /\ UNCHANGED <<exists, known, forgets, dead, live, active, creator, nlookup,
                 file, map>>

-----------------------------------------------------------------------------
(* fuse_vnop_close.  The session may die in the FLUSH, after which there is*)
(* no RELEASE.                                                             *)
Close(t) ==
  /\ Goto(t, "open", "idle") /\ Locked(t)
  /\ LET ty == file[t] IN
       IF dead \/ ~Valid(ty) THEN UNCHANGED <<opened, fufh, dead>>
       ELSE /\ fufh' = [fufh EXCEPT ![ty].count = @ - 1]
            /\ \/ /\ UNCHANGED dead
                  /\ Put(IF LastUse(ty) THEN {fufh[ty].fh} ELSE {})
               \/ dead' = TRUE /\ UNCHANGED opened
  /\ file' = [file EXCEPT ![t] = NoOne]
  /\ UNCHANGED <<exists, known, forgets, live, active, creator, nlookup,
                 locks, lost, map>>

-----------------------------------------------------------------------------
(* fuse_vnop_mmap.  Unmapping (fuse_vnop_mnomap) gives nothing back.       *)

(* It panics if the session is dead.                                       *)
MmapDead(t) ==
  /\ Goto(t, "open", "dead") /\ dead /\ Locked(t)
  /\ node' = t /\ big' = t
  /\ UNCHANGED <<daemon, vnode, lost, file, map>>

MayMap(ty) == fufh[ty].count < MaxUses

Map(t, ty) == map' = [map EXCEPT ![t] = ty]

MmapShared(t) ==
  /\ pc[t] = "open" /\ map[t] = NoOne /\ ~dead /\ Locked(t)
  /\ \E ty \in MapTypes : Valid(ty) /\ MayMap(ty) /\ Use(ty) /\ Map(t, ty)
  /\ UNCHANGED <<daemon, live, active, creator, nlookup, locks, lost, pc, file>>

(* The daemon is asked for permission without the big lock.                *)
MmapPreflight(t) ==
  /\ Goto(t, "open", "preflight") /\ map[t] = NoOne /\ ~dead /\ Locked(t)
  /\ \E ty \in MapTypes : ~Valid(ty) /\ Map(t, ty)
  /\ node' = t
  /\ UNCHANGED <<daemon, vnode, big, lost, file>>

(* fuse_filehandle_get panics, with both locks, if the handle is there by  *)
(* now.                                                                    *)
MmapPanics(t) ==
  /\ Goto(t, "preflight", "panic") /\ big = NoOne /\ big' = t
  /\ Valid(map[t])
  /\ UNCHANGED <<daemon, vnode, node, lost, file, map>>

MmapGets(t) ==
  /\ Goto(t, "preflight", "open") /\ big = NoOne /\ ~dead
  /\ ~Valid(map[t]) /\ Get(map[t]) /\ Leave
  /\ UNCHANGED <<exists, known, forgets, dead, live, active, creator, nlookup,
                 lost, file, map>>

(* Permission denied: once more, to read only.                             *)
MmapRetries(t) ==
  /\ pc[t] = "preflight" /\ big = NoOne
  /\ map[t] # "RDONLY" /\ Map(t, "RDONLY")
  /\ IF Valid("RDONLY")
     THEN /\ MayMap("RDONLY") /\ Use("RDONLY")
          /\ pc' = [pc EXCEPT ![t] = "open"] /\ Leave
     ELSE UNCHANGED <<fufh, pc, locks>>
  /\ UNCHANGED <<daemon, live, active, creator, nlookup, lost, file>>

MmapFails(t) ==
  /\ Goto(t, "preflight", "open") /\ big = NoOne
  /\ GetRefused \/ (~dead /\ ~Valid(map[t]) /\ GetCut)
  /\ Map(t, NoOne) /\ Leave
  /\ UNCHANGED <<exists, known, forgets, dead, live, active, creator, nlookup,
                 file>>

Munmap(t) ==
  /\ pc[t] \in {"idle", "open"} /\ map[t] # NoOne
  /\ Map(t, NoOne)
  /\ UNCHANGED <<daemon, vnode, locks, lost, pc, file>>

-----------------------------------------------------------------------------
(* fuse_internal_strategy that finds no handle.  There is nothing to page  *)
(* before the creator has opened the file.                                 *)
Page ==
  /\ live /\ creator = NoOne /\ big = NoOne /\ ~dead
  /\ \E io \in Paging :
       /\ ~Valid(IF io = "read" THEN "RDONLY" ELSE "WRONLY") /\ ~Valid("RDWR")
       /\ \/ Get(IF io = "read" THEN "RDONLY" ELSE "RDWR") /\ UNCHANGED lost
          \/ GetCut
  /\ UNCHANGED <<exists, known, forgets, dead, live, active, creator, nlookup,
                 locks, thread>>

-----------------------------------------------------------------------------
(* fuse_vnop_inactive, once nobody has the file open or mapped.            *)
Inactive ==
  /\ live /\ active /\ ~Referenced /\ node = NoOne /\ big = NoOne
  /\ Put(LeftOpen) /\ Reset
  /\ active' = FALSE
  /\ UNCHANGED <<exists, known, forgets, dead, live, creator, nlookup, locks,
                 lost, thread>>

(* Slip: one too many.                                                     *)
OneMore == nlookup + 1

ToForget == nlookup

(* fuse_vnop_reclaim.                                                      *)
Reclaim ==
  /\ live /\ ~active /\ ~Referenced /\ big = NoOne
  /\ Put(LeftOpen) /\ Reset
  /\ forgets' = IF dead THEN forgets ELSE forgets + ToForget
  /\ live' = FALSE /\ nlookup' = 0 /\ creator' = NoOne
  /\ UNCHANGED <<exists, known, dead, active, locks, lost, thread>>

(* The daemon reads the FORGETs.                                           *)
Forget ==
  /\ forgets > 0 /\ ~dead
  /\ known' = known - forgets /\ forgets' = 0
  /\ UNCHANGED <<exists, opened, dead, vnode, locks, lost, thread>>

Die ==
  /\ ~dead /\ dead' = TRUE
  /\ UNCHANGED <<exists, opened, known, forgets, vnode, locks, lost, thread>>

-----------------------------------------------------------------------------
Open(t)  == OpenDead(t) \/ OpenStashed(t) \/ OpenSleeps(t) \/ OpenShared(t)
            \/ OpenGets(t) \/ OpenFails(t)
Mmap(t)  == MmapPanics(t) \/ MmapGets(t) \/ MmapRetries(t) \/ MmapFails(t)
Makes(t) == Create(t) \/ CreateMknod(t) \/ CreateFails(t) \/ CreateCut(t)
            \/ CreateDead(t) \/ CreateTooLate(t)

Next ==
  \/ \E t \in Threads :
       \/ LookupMisses(t) \/ LookupCached(t) \/ Lookup(t) \/ LookupFails(t)
       \/ LookupCut(t) \/ Makes(t) \/ Open(t) \/ OpenSignalled(t)
       \/ Close(t) \/ MmapShared(t) \/ MmapPreflight(t) \/ MmapDead(t)
       \/ Mmap(t) \/ Munmap(t)
  \/ Page \/ Inactive \/ Reclaim \/ Forget \/ Die

Spec == Init /\ [][Next]_vars

(* A vnode nobody uses is made inactive and, when the volume is unmounted  *)
(* if not before, reclaimed.                                               *)
VnodesGo == WF_vars(Inactive) /\ WF_vars(Reclaim)

VnodesGoSpec == Spec /\ VnodesGo

(* Threads in the kernel go on.  Programs need not open, close or unmap,   *)
(* and signals need not come.                                              *)
FairSpec ==
  VnodesGoSpec /\ \A t \in Threads : SF_vars(Open(t)) /\ SF_vars(Mmap(t))

-----------------------------------------------------------------------------
(* Properties.                                                             *)

TypeOK ==
  /\ exists \in BOOLEAN /\ opened \subseteq Handles /\ dead \in BOOLEAN
  /\ known \in 0..MaxKnown /\ forgets \in 0..MaxKnown
  /\ live \in BOOLEAN /\ active \in BOOLEAN
  /\ fufh \in [Types -> [count : 0..(MaxUses + Cardinality(Threads)),
                         fh : Handles \cup {NoOne}]]
  /\ creator \in Threads \cup {NoOne} /\ nlookup \in 0..MaxKnown
  /\ node \in Threads \cup {NoOne} /\ big \in Threads \cup {NoOne}
  /\ lost \subseteq Handles
  /\ file \in [Threads -> OpenTypes \cup {NoOne}]
  /\ map \in [Threads -> Types \cup {NoOne}]

(* What the daemon has open for the file are the handles in use in the     *)
(* vnode, each in one slot, and those whose OPEN or CREATE the kernel gave *)
(* up: one RELEASE for one OPEN, through stashing, sharing, paging, closing*)
(* and reclaiming.                                                         *)
OneReleasePerOpen ==
  ~dead => /\ opened \ lost = ValidHandles
           /\ \A a, b \in Types :
                Valid(a) /\ Valid(b) /\ fufh[a].fh = fufh[b].fh => a = b

(* A file that is open or mapped has the handle of its mode, and paging    *)
(* never has to open one for a mapping.                                    *)
InUseIsOpen ==
  ~dead => \A t \in Threads :
    /\ pc[t] \in {"open", "preflight"} => Valid(file[t])
    /\ pc[t] # "preflight" /\ map[t] # NoOne => Valid(map[t])

(* The daemon is not told to forget a file the kernel still has: its count *)
(* covers the vnode's and whatever is on its way.                          *)
NeverOverForgotten == known >= nlookup + forgets

(* fuse_filehandle_get is called by those only who do not have the handle  *)
(* ("filehandle_get called despite valid fufh").                           *)
NoPanic == \A t \in Threads : pc[t] # "panic"

(* A handle nobody uses any more is released, also if paging opened it     *)
(* after the last close.                                                   *)
UnusedReleased ==
  opened \ lost # {} /\ ~Referenced ~>
    opened \subseteq lost \/ dead \/ Referenced

(* A thread that opens a file in the making is let go on once its creator  *)
(* has opened it.                                                          *)
ContendersWake == \A t \in Threads : pc[t] = "asleep" ~> pc[t] # "asleep"
=============================================================================
