---------------------------- MODULE FuseSession ----------------------------
(***************************************************************************)
(* The life of a session: /dev/fuseN from open to last close               *)
(* (core/10.5/fusefs/fuse_device.c), the volume from mount(2) to unmount(2)*)
(* (fuse_vfsops.c), the handshake between them (fuse_internal.c), and the  *)
(* stopping of the kernel extension (fuse_main.c).                         *)
(*                                                                         *)
(* One unit of the device.  A session is a fuse_data.  The daemon and the  *)
(* mount helper it forks share the open file, so the device closes when the*)
(* last of them exits.  The file system that is mounted, and the lingering *)
(* one whose daemon is gone, keep the session: whoever of                  *)
(* fuse_device_close, fuse_vfsop_mount and fuse_vfsop_unmount comes last   *)
(* destroys it.                                                            *)
(*                                                                         *)
(* A step is what a thread does between two places where it may wait: for  *)
(* a mutex, for the daemon's answer, or in a call to the VFS layer.        *)
(***************************************************************************)
EXTENDS Integers, FiniteSets

CONSTANTS
  Daemons,            (* Processes that open the device.                   *)
  Helpers,            (* Processes that call mount(2): mount_fusefs.       *)
  Unmounter,          (* The thread in unmount(2).                         *)
  Unloader,           (* The thread that stops the kernel extension.       *)
  NoOne,              (* The owner of a free mutex.                        *)
  MaxSessions,        (* Sessions ever made.  Bounds the model.            *)
  MaxMounts           (* Helpers a daemon forks for one session.           *)

Processes == Daemons \cup Helpers
Threads   == Processes \cup {Unmounter, Unloader}
Sessions  == 1..MaxSessions
NULL      == 0

ASSUME SessionAssumption ==
  /\ IsFiniteSet(Daemons) /\ IsFiniteSet(Helpers)
  /\ Daemons \cap Helpers = {}
  /\ Unmounter \notin Processes /\ Unloader \notin Processes \cup {Unmounter}
  /\ NoOne \notin Threads
  /\ MaxSessions \in Nat /\ MaxMounts \in Nat

VARIABLES
  available,   (* fuse_interface_available                                 *)
  installed,   (* "yes", "no_devices" or "no": what fusefs_stop left.      *)
  usecount,    (* fdev->usecount                                           *)
  data,        (* fdev->data                                               *)
  global,      (* Owner of fuse_device_mutex.                              *)
  local,       (* Owner of fdev->mtx.                                      *)
  big,         (* Session -> owner of its big lock.                        *)
  sess,        (* Session -> its fuse_data, see NewSession.                *)
  fds,         (* Session -> the processes that have the device open.      *)
  mounts,      (* fuse_mount_count                                         *)
  volume,      (* Session -> the mount point that holds it.                *)
  destroyed,   (* The sessions that were freed.                            *)
  pc, ses      (* Thread -> where it is, and the session it works for.     *)

kext   == <<available, installed>>
device == <<usecount, data>>
locks  == <<global, local, big>>
mp     == <<mounts, volume>>
thread == <<pc, ses>>
vars   == <<kext, device, locks, sess, fds, mp, destroyed, thread>>

(* opened, dead, inited: FSESS_OPENED, FSESS_DEAD, FSESS_INITED.  mounted: *)
(* mount_state is FM_MOUNTED.  call: the request of a mount or unmount the *)
(* daemon has yet to read or answer, and what became of it.  forks: the    *)
(* helpers forked so far.                                                  *)
NoData     == [opened |-> FALSE, dead |-> FALSE, inited |-> FALSE,
               mounted |-> FALSE, call |-> "none", forks |-> 0]
NewSession == [NoData EXCEPT !.opened = TRUE]

Made == {s \in Sessions : sess[s].opened \/ sess[s].dead}

Init ==
  /\ available = TRUE /\ installed = "yes"
  /\ usecount = 0 /\ data = NULL
  /\ global = NoOne /\ local = NoOne /\ big = [s \in Sessions |-> NoOne]
  /\ sess = [s \in Sessions |-> NoData]
  /\ fds = [s \in Sessions |-> {}]
  /\ mounts = 0 /\ volume = [s \in Sessions |-> "none"]
  /\ destroyed = {}
  /\ pc = [t \in Threads |-> "idle"] /\ ses = [t \in Threads |-> NULL]

Goto(t, from, to) == pc[t] = from /\ pc' = [pc EXCEPT ![t] = to]
Set(s, field, v)  == sess' = [sess EXCEPT ![s][field] = v]

(* fdata_set_dead.                                                         *)
SetDead(s) == Set(s, "dead", TRUE)

(* Emptying aw_head: whoever waits is woken to an error.                   *)
Cut(call) == IF call \in {"sent", "read"} THEN "cut" ELSE call

BigFree(s)    == big[s] = NoOne
TakeBig(t, s) == big' = [big EXCEPT ![s] = t]
DropBig(s)    == big' = [big EXCEPT ![s] = NoOne]

-----------------------------------------------------------------------------
(* Opening and closing the device.                                         *)

(* Slip: the device is not exclusive.                                      *)
NeverInUse == FALSE

InUse == usecount # 0

(* fuse_device_open looks at fuse_interface_available before it locks.     *)
Open(d) ==
  /\ available /\ Cardinality(Made) < MaxSessions
  /\ Goto(d, "idle", "open")
  /\ UNCHANGED <<kext, device, locks, sess, fds, mp, destroyed, ses>>

(* It keeps fuse_device_mutex until it has the mutex of the device.        *)
OpenGlobal(d) ==
  /\ global = NoOne /\ installed = "yes"
  /\ IF InUse
     THEN Goto(d, "open", "idle") /\ UNCHANGED <<usecount, global>>
     ELSE /\ Goto(d, "open", "open_local")
          /\ usecount' = usecount + 1 /\ global' = d
  /\ UNCHANGED <<kext, data, local, big, sess, fds, mp, destroyed, ses>>

(* fusefs_stop has freed the mutex meanwhile.                              *)
OpenStopped(d) ==
  /\ installed # "yes"
  /\ Goto(d, "open", "crashed")
  /\ UNCHANGED <<kext, device, locks, sess, fds, mp, destroyed, ses>>

OpenLocal(d) ==
  /\ Goto(d, "open_local", "alloc")
  /\ local = NoOne /\ local' = d /\ global' = NoOne
  /\ UNCHANGED <<kext, device, big, sess, fds, mp, destroyed, ses>>

(* fdata_alloc may block.  A lingering mount still has the device.         *)
OpenAlloc(d) ==
  IF data # NULL
  THEN /\ Goto(d, "alloc", "busy")
       /\ UNCHANGED <<kext, device, locks, sess, fds, mp, destroyed, ses>>
  ELSE \E s \in Sessions :
         /\ Goto(d, "alloc", "running")
         /\ s = Cardinality(Made) + 1
         /\ data' = s /\ sess' = [sess EXCEPT ![s] = NewSession]
         /\ fds' = [fds EXCEPT ![s] = {d}]
         /\ ses' = [ses EXCEPT ![d] = s]
         /\ local' = NoOne
         /\ UNCHANGED <<kext, usecount, global, big, mp, destroyed>>

(* The two mutexes are taken in the other order here.                      *)
OpenBusy(d) ==
  /\ Goto(d, "busy", "idle")
  /\ global = NoOne
  /\ usecount' = usecount - 1 /\ local' = NoOne
  /\ UNCHANGED <<kext, data, global, big, sess, fds, mp, destroyed, ses>>

(* A process exits or crashes.  The last one closes the device.            *)
Exit(p) ==
  /\ pc[p] \in {"running", "exit"}
  /\ LET s == ses[p]
         last == fds[s] = {p}
     IN /\ fds' = [fds EXCEPT ![s] = @ \ {p}]
        /\ pc' = [pc EXCEPT ![p] = IF last THEN "close" ELSE "idle"]
        /\ ses' = IF last THEN ses ELSE [ses EXCEPT ![p] = NULL]
  /\ UNCHANGED <<kext, device, locks, sess, mp, destroyed>>

(* fuse_device_close: fdata_set_dead comes before the mutex.               *)
Close(p) ==
  /\ Goto(p, "close", "close_local")
  /\ SetDead(data)
  /\ UNCHANGED <<kext, device, locks, fds, mp, destroyed, ses>>

(* Slip: close destroys the session of a mounted volume.                   *)
NeverLeft(s) == FALSE

(* Is the session left for unmount to destroy?                             *)
LeftForUnmount(s) == sess[s].mounted

CloseLocal(p) ==
  /\ Goto(p, "close_local", "close_use")
  /\ local = NoOne
  /\ LET s == ses[p] IN
       /\ sess' = [sess EXCEPT ![s].opened = FALSE,
                     ![s].call = IF LeftForUnmount(s) THEN Cut(@) ELSE @]
       /\ IF LeftForUnmount(s) THEN UNCHANGED <<data, destroyed>>
          ELSE data' = NULL /\ destroyed' = destroyed \cup {s}
  /\ UNCHANGED <<kext, usecount, locks, fds, mp, ses>>

CloseUse(p) ==
  /\ Goto(p, "close_use", "idle")
  /\ global = NoOne
  /\ usecount' = usecount - 1
  /\ ses' = [ses EXCEPT ![p] = NULL]
  /\ UNCHANGED <<kext, data, locks, sess, fds, mp, destroyed>>

-----------------------------------------------------------------------------
(* The daemon.                                                             *)

(* fuse_mount_core forks the helper, which inherits the device.            *)
Fork(d, h) ==
  /\ pc[d] = "running" /\ sess[ses[d]].forks < MaxMounts
  /\ Goto(h, "idle", "mount")
  /\ Set(ses[d], "forks", sess[ses[d]].forks + 1)
  /\ ses' = [ses EXCEPT ![h] = ses[d]]
  /\ fds' = [fds EXCEPT ![ses[d]] = @ \cup {h}]
  /\ UNCHANGED <<kext, device, locks, mp, destroyed>>

(* fuse_device_read gives nothing to the daemon of a dead session.         *)
Read(d) ==
  /\ pc[d] = "running"
  /\ LET s == ses[d] IN
       /\ ~sess[s].dead /\ sess[s].call = "sent"
       /\ Set(s, "call", "read")
  /\ UNCHANGED <<kext, device, locks, fds, mp, destroyed, thread>>

(* The daemon answers, with an error or without.                           *)
Reply(d) ==
  /\ pc[d] = "running" /\ sess[ses[d]].call = "read"
  /\ \E answer \in {"answered", "refused"} : Set(ses[d], "call", answer)
  /\ UNCHANGED <<kext, device, locks, fds, mp, destroyed, thread>>

(* FUSEDEVIOCSETDAEMONDEAD, by the library when the channel is destroyed   *)
(* and by the helper that fails: it wakes nobody who waits for an answer.  *)
SetDaemonDead(p) ==
  /\ \/ p \in Daemons /\ Goto(p, "running", "exit")
     \/ Goto(p, "failed", "exit")
  /\ local = NoOne
  /\ IF p \in fds[ses[p]] THEN SetDead(data) ELSE UNCHANGED sess
  /\ UNCHANGED <<kext, device, locks, fds, mp, destroyed, ses>>

(* macfuse.control.kill.                                                   *)
Kill ==
  /\ installed = "yes" /\ local = NoOne /\ data # NULL /\ ~sess[data].dead
  /\ sess' = [sess EXCEPT ![data].dead = TRUE, ![data].call = Cut(@)]
  /\ UNCHANGED <<kext, device, locks, fds, mp, destroyed, thread>>

-----------------------------------------------------------------------------
(* Waiting for the answer to a request of the session, fdisp_wait_answ.    *)

Send(t, from, to) ==
  /\ Goto(t, from, to)
  /\ ~sess[ses[t]].dead /\ Set(ses[t], "call", "sent")

Pending(s) == sess[s].call \in {"sent", "read"}

(* Slip: daemon_timeout is not looked at.                                  *)
EndsUntimed(s, how) ==
  /\ sess[s].call = how /\ how \in {"answered", "refused", "cut"}
  /\ Set(s, "call", "none")

(* The request comes to an end: it was answered, refused or cut off, or it *)
(* timed out, which marks the session dead.                                *)
Ends(s, how) ==
  \/ /\ sess[s].call = how /\ how \in {"answered", "refused", "cut"}
     /\ Set(s, "call", "none")
  \/ /\ Pending(s) /\ how = "timeout"
     /\ sess' = [sess EXCEPT ![s].call = "none", ![s].dead = TRUE]

-----------------------------------------------------------------------------
(* Mounting: fuse_vfsop_mount.                                             *)

(* The device's mutex is kept while the big lock is waited for.            *)
MountLocal(h) ==
  /\ local = NoOne
  /\ IF data # ses[h]
     THEN Goto(h, "mount", "failed") /\ UNCHANGED <<local, volume>>
     ELSE /\ Goto(h, "mount", "mount_big") /\ local' = h
          /\ UNCHANGED volume
  /\ UNCHANGED <<kext, device, global, big, sess, fds, mounts, destroyed, ses>>

MountBig(h) ==
  /\ pc[h] = "mount_big" /\ BigFree(ses[h])
  /\ local' = NoOne
  /\ LET s == ses[h] IN
       \/ /\ sess[s].mounted                               (* EALREADY *)
          /\ Goto(h, "mount_big", "failed")
          /\ UNCHANGED <<big, sess, mp>>
       \/ /\ ~sess[s].mounted
          /\ \/ sess[s].dead /\ Goto(h, "mount_big", "unwind")
             \/ ~sess[s].dead /\ Goto(h, "mount_big", "init")
             \/ Goto(h, "mount_big", "unwind")             (* EPERM *)
          /\ TakeBig(h, s) /\ Set(s, "mounted", TRUE)
          /\ mounts' = mounts + 1
          /\ volume' = [volume EXCEPT ![s] = "mounting"]
  /\ UNCHANGED <<kext, device, global, fds, destroyed, ses>>

(* fuse_internal_send_init.                                                *)
SendInit(h) ==
  /\ \/ Send(h, "init", "init_wait")
     \/ Goto(h, "init", "unwind") /\ sess[ses[h]].dead /\ UNCHANGED sess
  /\ UNCHANGED <<kext, device, locks, fds, mp, destroyed, ses>>

(* A signal.  The INTERRUPT for INIT sleeps in fuse_ticket_fetch until the *)
(* session is initialised, is cut short by the same signal, and kills it.  *)
Signal(h) ==
  /\ pc[h] \in {"init_wait", "statfs_wait"}
  /\ LET s == ses[h] IN
       /\ Pending(s)
       /\ \/ /\ Goto(h, "init_wait", "unwind")
             /\ sess' = [sess EXCEPT ![s].call = "none", ![s].dead = TRUE]
          \/ /\ Goto(h, "statfs_wait", "unwind")
             /\ Set(s, "call", "none")
  /\ UNCHANGED <<kext, device, locks, fds, mp, destroyed, ses>>

(* fuse_internal_init_synchronous: a library too old, or an answer of the  *)
(* wrong size, kills the session, and the mount goes on.                   *)
InitAnswered(h) ==
  /\ Goto(h, "init_wait", "statfs")
  /\ LET s == ses[h] IN
       /\ sess[s].call = "answered"
       /\ \E bad \in BOOLEAN :
            sess' = [sess EXCEPT ![s].call = "none", ![s].inited = TRUE,
                                 ![s].dead = @ \/ bad]
  /\ UNCHANGED <<kext, device, locks, fds, mp, destroyed, ses>>

InitFails(h) ==
  /\ Goto(h, "init_wait", "unwind")
  /\ \E how \in {"refused", "cut", "timeout"} : Ends(ses[h], how)
  /\ UNCHANGED <<kext, device, locks, fds, mp, destroyed, ses>>

(* fuse_vfsop_getattr makes up an answer for a dead session.               *)
Statfs(h) ==
  /\ \/ Send(h, "statfs", "statfs_wait")
     \/ Goto(h, "statfs", "root") /\ sess[ses[h]].dead /\ UNCHANGED sess
  /\ UNCHANGED <<kext, device, locks, fds, mp, destroyed, ses>>

StatfsEnds(h) ==
  /\ \/ /\ Goto(h, "statfs_wait", "root")
        /\ \E how \in {"answered", "timeout"} : Ends(ses[h], how)
     \/ /\ Goto(h, "statfs_wait", "unwind")
        /\ \E how \in {"refused", "cut"} : Ends(ses[h], how)
  /\ UNCHANGED <<kext, device, locks, fds, mp, destroyed, ses>>

(* fuse_vfsop_root and vnode_ref; from here on the volume can be unmounted *)
(* once mount(2) returns.                                                  *)
Root(h) ==
  /\ \/ Goto(h, "root", "finish_done") \/ Goto(h, "root", "unwind")
  /\ UNCHANGED <<kext, device, locks, sess, fds, mp, destroyed, ses>>

Uncount == mounts' = mounts - 1

(* The error path, under the device's mutex; data is read again.           *)
Unwind(h) ==
  /\ Goto(h, "unwind", "finish_failed")
  /\ local = NoOne
  /\ Uncount
  /\ volume' = [volume EXCEPT ![ses[h]] = "none"]
  /\ IF data = NULL THEN UNCHANGED <<data, big, sess, destroyed>>
     ELSE /\ Set(data, "mounted", FALSE)
          /\ IF sess[data].opened THEN UNCHANGED <<data, big, destroyed>>
             ELSE /\ DropBig(ses[h])
                  /\ data' = NULL /\ destroyed' = destroyed \cup {data}
  /\ UNCHANGED <<kext, usecount, global, local, fds, ses>>

(* The big lock is released if the device still has a session.             *)
Finish(h) ==
  /\ local = NoOne
  /\ \/ /\ Goto(h, "finish_failed", "failed") /\ UNCHANGED volume
     \/ /\ Goto(h, "finish_done", "exit")
        /\ volume' = [volume EXCEPT ![ses[h]] = "mounted"]
  /\ IF data = NULL THEN UNCHANGED big ELSE DropBig(ses[h])
  /\ UNCHANGED <<kext, device, global, local, sess, fds, mounts, destroyed, ses>>

-----------------------------------------------------------------------------
(* Unmounting: fuse_vfsop_unmount.                                         *)
u == Unmounter

Unmount ==
  \E s \in Sessions :
    /\ volume[s] = "mounted" /\ Goto(u, "idle", "unmount")
    /\ volume' = [volume EXCEPT ![s] = "unmounting"]
    /\ ses' = [ses EXCEPT ![u] = s]
    /\ UNCHANGED <<kext, device, locks, sess, fds, mounts, destroyed>>

(* The first look at the session, under the big lock.                      *)
UnmountBegins ==
  /\ Goto(u, "unmount", "vflush")
  /\ LET s == ses[u] IN
       /\ BigFree(s)
       /\ IF sess[s].inited THEN UNCHANGED sess ELSE SetDead(s)
  /\ UNCHANGED <<kext, device, locks, fds, mp, destroyed, ses>>

(* vflush without the big lock, then the look at the root vnode: files are *)
(* in use.                                                                 *)
UnmountBusy ==
  /\ Goto(u, "vflush", "idle") /\ BigFree(ses[u])
  /\ volume' = [volume EXCEPT ![ses[u]] = "mounted"]
  /\ UNCHANGED <<kext, device, locks, sess, fds, mounts, destroyed, ses>>

UnmountFlushed ==
  /\ pc[u] = "vflush" /\ BigFree(ses[u])
  /\ IF sess[ses[u]].dead THEN Goto(u, "vflush", "rele")
                          ELSE Goto(u, "vflush", "destroy")
  /\ TakeBig(u, ses[u])
  /\ UNCHANGED <<kext, device, global, local, sess, fds, mp, destroyed, ses>>

(* FUSE_DESTROY, whatever comes of it, is the last request.                *)
SendDestroy ==
  /\ \/ Send(u, "destroy", "destroy_wait")
     \/ Goto(u, "destroy", "rele") /\ sess[ses[u]].dead /\ UNCHANGED sess
  /\ UNCHANGED <<kext, device, locks, fds, mp, destroyed, ses>>

DestroyEnds ==
  /\ Goto(u, "destroy_wait", "rele")
  /\ LET s == ses[u] IN
       /\ sess[s].call # "none"
       /\ sess' = [sess EXCEPT ![s].call = "none", ![s].dead = TRUE]
  /\ UNCHANGED <<kext, device, locks, fds, mp, destroyed, ses>>

(* The root vnode is released, and flushed, without the big lock.          *)
Release ==
  /\ Goto(u, "rele", "retake")
  /\ DropBig(ses[u])
  /\ UNCHANGED <<kext, device, global, local, sess, fds, mp, destroyed, ses>>

Retake ==
  /\ Goto(u, "retake", "unmounted")
  /\ BigFree(ses[u]) /\ TakeBig(u, ses[u])
  /\ UNCHANGED <<kext, device, global, local, sess, fds, mp, destroyed, ses>>

(* Slip: unmount leaves the session to a close that has been.              *)
AlwaysLeft(s) == TRUE

(* Does unmount destroy the session, or leave it for close?                *)
LeftForClose(s) == sess[s].opened

(* The mount point gives the session up, and so may the device; the mutex  *)
(* of the device is still held.                                            *)
Unmounted ==
  /\ Goto(u, "unmounted", "unlock")
  /\ local = NoOne /\ local' = u
  /\ LET s == ses[u] IN
       /\ Set(s, "mounted", FALSE)
       /\ Uncount
       /\ volume' = [volume EXCEPT ![s] = "none"]
       /\ DropBig(s)
       /\ IF LeftForClose(s) THEN UNCHANGED <<data, destroyed>>
          ELSE data' = NULL /\ destroyed' = destroyed \cup {s}
  /\ UNCHANGED <<kext, usecount, global, fds, ses>>

(* fuse_devices_stop does not take the mutex, and may have freed it.       *)
UnmountUnlock ==
  /\ IF installed = "yes" THEN Goto(u, "unlock", "dounmount")
                          ELSE Goto(u, "unlock", "crashed")
  /\ local' = NoOne
  /\ UNCHANGED <<kext, device, global, big, sess, fds, mp, destroyed, ses>>

(* The kernel drops the mount once fuse_vfsop_unmount has returned.        *)
Dounmount ==
  /\ Goto(u, "dounmount", "idle")
  /\ UNCHANGED <<kext, device, locks, sess, fds, mp, destroyed, ses>>

-----------------------------------------------------------------------------
(* fusefs_stop and fusefs_start.                                           *)

(* It may be asked again when it stopped half way.                         *)
Stop ==
  /\ installed # "no" /\ Goto(Unloader, "idle", "stop")
  /\ available' = FALSE
  /\ UNCHANGED <<installed, device, locks, sess, fds, mp, destroyed, ses>>

(* Slip: the session that lingers is overlooked.                           *)
DeviceOpen == InUse

DeviceInUse == InUse \/ data # NULL

(* fuse_devices_stop; it has nothing to do when it has been here before.   *)
StopDevices ==
  /\ global = NoOne
  /\ IF installed = "yes" /\ DeviceInUse
     THEN /\ Goto(Unloader, "stop", "idle") /\ available' = TRUE
          /\ UNCHANGED installed
     ELSE /\ Goto(Unloader, "stop", "stop_vfs") /\ installed' = "no_devices"
          /\ UNCHANGED available
  /\ UNCHANGED <<device, locks, sess, fds, mp, destroyed, ses>>

(* vfs_fsremove refuses while the kernel has a mount of ours, which is     *)
(* until dounmount is through.                                             *)
Mounting(h) ==
  pc[h] \in {"mount", "mount_big", "init", "init_wait", "statfs",
             "statfs_wait", "root", "unwind", "finish_failed", "finish_done"}

StopVfs ==
  /\ Goto(Unloader, "stop_vfs", "idle")
  /\ installed' = IF \/ \E h \in Helpers : Mounting(h)
                     \/ \E s \in Sessions : volume[s] # "none"
                     \/ pc[u] # "idle"
                  THEN installed ELSE "no"
  /\ UNCHANGED <<available, device, locks, sess, fds, mp, destroyed, ses>>

Start ==
  /\ installed = "no" /\ pc[Unloader] = "idle"
  /\ installed' = "yes" /\ available' = TRUE
  /\ UNCHANGED <<device, locks, sess, fds, mp, destroyed, thread>>

-----------------------------------------------------------------------------
(* What a thread does once it has begun, if the daemon and the timers let  *)
(* it.                                                                     *)
Opening(d) == OpenGlobal(d) \/ OpenStopped(d) \/ OpenLocal(d) \/ OpenAlloc(d)
              \/ OpenBusy(d)
Closing(p) == Close(p) \/ CloseLocal(p) \/ CloseUse(p)
Mount(h)   == \/ MountLocal(h) \/ MountBig(h) \/ SendInit(h) \/ InitAnswered(h)
              \/ InitFails(h) \/ Statfs(h) \/ StatfsEnds(h) \/ Root(h)
              \/ Unwind(h) \/ Finish(h)
Unmounting == \/ UnmountBegins \/ UnmountBusy \/ UnmountFlushed \/ SendDestroy
              \/ DestroyEnds \/ Release \/ Retake \/ Unmounted
              \/ UnmountUnlock \/ Dounmount

Next ==
  \/ \E d \in Daemons : \/ Open(d) \/ Opening(d) \/ Read(d) \/ Reply(d)
                        \/ \E h \in Helpers : Fork(d, h)
  \/ \E p \in Processes : Exit(p) \/ Closing(p) \/ SetDaemonDead(p)
  \/ \E h \in Helpers : Mount(h) \/ Signal(h)
  \/ Unmount \/ Unmounting \/ Kill
  \/ Stop \/ StopDevices \/ StopVfs \/ Start

Spec == Init /\ [][Next]_vars

(* The kernel's threads run, its mutexes serve whoever waits, and          *)
(* daemon_timeout is set, so requests time out.  Processes need not exit,  *)
(* but mount_fusefs does once it is done.                                  *)
Fairness ==
  /\ \A d \in Daemons : SF_vars(Opening(d))
  /\ \A p \in Processes : SF_vars(Closing(p))
  /\ \A h \in Helpers :
       SF_vars(Mount(h)) /\ SF_vars(SetDaemonDead(h)) /\ WF_vars(Exit(h))
  /\ SF_vars(Unmounting)

FairSpec == Spec /\ Fairness

-----------------------------------------------------------------------------
(* Properties.                                                             *)

TypeOK ==
  /\ available \in BOOLEAN /\ installed \in {"yes", "no_devices", "no"}
  /\ usecount \in 0..1 /\ data \in 0..MaxSessions
  /\ global \in Threads \cup {NoOne} /\ local \in Threads \cup {NoOne}
  /\ big \in [Sessions -> Threads \cup {NoOne}]
  /\ sess \in [Sessions ->
       [opened : BOOLEAN, dead : BOOLEAN, inited : BOOLEAN, mounted : BOOLEAN,
        call : {"none", "sent", "read", "answered", "refused", "cut"},
        forks : 0..MaxMounts]]
  /\ fds \in [Sessions -> SUBSET Processes]
  /\ mounts \in Nat
  /\ volume \in [Sessions -> {"none", "mounting", "mounted", "unmounting"}]
  /\ destroyed \subseteq Sessions
  /\ ses \in [Threads -> 0..MaxSessions]

(* Where unmount has left its session alone.                               *)
Away == {"idle", "unlock", "dounmount", "crashed"}

(* Threads that are going to look at their session again.                  *)
Uses(t) ==
  \/ pc[t] \in {"running", "close", "close_local"}
  \/ pc[t] \in {"mount_big", "init", "init_wait", "statfs", "statfs_wait",
                "root", "finish_done"}
  \/ t = Unmounter /\ pc[t] \notin Away

(* Whatever the order in which the daemon exits, a mount fails and a volume*)
(* is unmounted, none of their threads finds its session destroyed.        *)
NoUseAfterDestroy ==
  \A t \in Threads : Uses(t) => ses[t] \notin destroyed

(* And one of them destroys it: a session nobody has open and that is not  *)
(* mounted is gone, and the device can be opened again.                    *)
NoSessionLeak ==
  \A s \in Made \ destroyed :
    data = s /\ (sess[s].opened \/ sess[s].mounted)

(* fuse_devices_stop looks at two fields of the device, and looks once;    *)
(* whatever opens, mounts and unmounts race with it, when the devices are  *)
(* stopped every session made is destroyed, no process has one open, is    *)
(* closing or mounting, and unmount is done with its own.  The file system *)
(* goes after the last unmount.                                            *)
NothingOutlivesStop ==
  /\ installed # "yes" =>
       /\ Made = destroyed /\ pc[Unmounter] \in Away
       /\ \A p \in Processes : pc[p] \in {"idle", "open", "crashed"}
  /\ installed = "no" => pc[Unmounter] = "idle"

(* mount(2) returns, even if the daemon dies before the handshake while    *)
(* the helper itself keeps the device from being closed.                   *)
MountReturns ==
  \A h \in Helpers : pc[h] = "mount" ~> ~Mounting(h)

(* Once the processes have gone and the volume is being unmounted, either  *)
(* it stays mounted because files are in use, or the session is destroyed. *)
SessionEnds ==
  \A s \in Sessions :
    fds[s] = {} /\ volume[s] = "unmounting"
      ~> s \in destroyed \/ volume[s] = "mounted"
=============================================================================
