-------------------------- MODULE FuseSessionProofs --------------------------
(***************************************************************************)
(* Proofs about FuseSession.                                               *)
(*                                                                         *)
(* The inductive invariant ties the three who may destroy a session to the *)
(* record of it: a process has the device open exactly if the kernel has it*)
(* in fds (Sharing), it alone is in usecount (Exclusive), FSESS_OPENED is  *)
(* set until the last close is under way (OpenedUntilClosed), mount_state  *)
(* is FM_MOUNTED as long as there is a mount point (MountPoints), and      *)
(* fdev->data is the session that is open or mounted while all others that *)
(* were made are destroyed (OneSession). Nothing is assumed but            *)
(* SessionAssumption.                                                      *)
(*                                                                         *)
(* A lemma shows for each part of it that every step keeps it, action by   *)
(* action, for any number of daemons, helpers and sessions, and any number *)
(* of mounts a session is asked for.                                       *)
(***************************************************************************)
EXTENDS FuseSession, FiniteSetTheorems, TLAPS

(* Where a process has the device open, and where it has the one open of   *)
(* the device to itself.                                                   *)
InSession == {"running", "exit", "failed", "mount", "mount_big", "init",
              "init_wait", "statfs", "statfs_wait", "root", "unwind",
              "finish_failed", "finish_done"}

(* A helper that has made a mount point, until it is done with it.         *)
AtVolume  == {"init", "init_wait", "statfs", "statfs_wait", "root", "unwind",
              "finish_done"}
Last      == {"close", "close_local"}
Holds     == {"open_local", "alloc", "busy", "close_use"} \cup Last

Data == [opened : BOOLEAN, dead : BOOLEAN, inited : BOOLEAN, mounted : BOOLEAN,
         call : {"none", "sent", "read", "answered", "refused", "cut"},
         forks : 0..MaxMounts]

(* The types, but for mounts, which is counted below.                      *)
Typed ==
  /\ available \in BOOLEAN /\ installed \in {"yes", "no_devices", "no"}
  /\ usecount \in 0..1 /\ data \in Sessions \cup {NULL}
  /\ global \in Threads \cup {NoOne} /\ local \in Threads \cup {NoOne}
  /\ big \in [Sessions -> Threads \cup {NoOne}]
  /\ sess \in [Sessions -> Data] /\ fds \in [Sessions -> SUBSET Processes]
  /\ volume \in [Sessions -> {"none", "mounting", "mounted", "unmounting"}]
  /\ destroyed \subseteq Sessions
  /\ ses \in [Threads -> Sessions \cup {NULL}]

(* Where a thread is.                                                      *)
ProcessPCs   == InSession \cup Holds \cup {"idle", "open", "crashed"}
UnmounterPCs == {"idle", "unmount", "vflush", "destroy", "destroy_wait",
                 "rele", "retake", "unmounted", "unlock", "dounmount",
                 "crashed"}
UnloaderPCs  == {"idle", "stop", "stop_vfs"}

Placed ==
  /\ pc \in [Threads -> ProcessPCs \cup UnmounterPCs \cup UnloaderPCs]
  /\ \A p \in Processes : pc[p] \in ProcessPCs
  /\ pc[Unmounter] \in UnmounterPCs /\ pc[Unloader] \in UnloaderPCs

(* The processes that have the device open are those of one session ...    *)
Sharing ==
  /\ \A p \in Processes, s \in Sessions :
       p \in fds[s] <=> pc[p] \in InSession /\ ses[p] = s
  /\ \A p \in Processes : pc[p] \in InSession \cup Last => ses[p] \in Sessions
  /\ \A r, s \in Sessions : fds[r] # {} /\ fds[s] # {} => r = s

(* ... and usecount is for them, or for the one that opens or closes.      *)
Exclusive ==
  /\ \A p, q \in Processes : pc[p] \in Holds /\ pc[q] \in Holds => p = q
  /\ \A p \in Processes, s \in Sessions : fds[s] # {} => pc[p] \notin Holds
  /\ usecount = 1 <=> \/ \E p \in Processes : pc[p] \in Holds
                      \/ \E s \in Sessions : fds[s] # {}

(* FSESS_OPENED is set until the last close is under way.                  *)
OpenedUntilClosed ==
  /\ \A s \in Sessions : fds[s] # {} => sess[s].opened
  /\ \A p \in Processes : pc[p] \in Last => sess[ses[p]].opened
  /\ \A p \in Processes : pc[p] = "close_local" => sess[ses[p]].dead
  /\ \A s \in Sessions : sess[s].opened =>
       fds[s] # {} \/ \E p \in Processes : pc[p] \in Last /\ ses[p] = s

(* The device has the session that is open or mounted; all others that were*)
(* made are destroyed.                                                     *)
OneSession ==
  /\ \A s \in Sessions : data = s <=> sess[s].opened \/ sess[s].mounted
  /\ \A s \in Sessions : s \in destroyed <=> s \in Made /\ data # s
  /\ data \in Made \cup {NULL}
  /\ Made = 1..Cardinality(Made)

(* A session is mounted as long as there is a mount point.                 *)
MountPoints == \A s \in Sessions : volume[s] # "none" <=> sess[s].mounted

(* Who mounts and who unmounts has the mount point to itself ...           *)
Volumes ==
  /\ \A h \in Helpers : pc[h] \in AtVolume => volume[ses[h]] = "mounting"
  /\ \A g, h \in Helpers :
       pc[g] \in AtVolume /\ pc[h] \in AtVolume /\ ses[g] = ses[h] => g = h
  /\ pc[Unmounter] \in {"unmount", "vflush", "destroy", "destroy_wait",
                        "rele", "retake", "unmounted"} =>
       ses[Unmounter] \in Sessions /\ volume[ses[Unmounter]] = "unmounting"

(* ... and fuse_mount_count counts the mount points.                       *)
Mounted == {s \in Sessions : volume[s] # "none"}
Counted == mounts = Cardinality(Mounted)

(* The devices are stopped when there is nothing to be closed or unmounted,*)
(* and stay so; the file system is not stopped before.                     *)
Stopping ==
  /\ installed # "yes" => usecount = 0 /\ data = NULL
  /\ pc[Unloader] = "stop_vfs" => installed = "no_devices"
  /\ pc[Unloader] = "stop" => installed # "no"
  /\ installed = "no" => pc[Unmounter] = "idle"

IInv == /\ Typed /\ Placed /\ Sharing /\ Exclusive /\ OpenedUntilClosed
        /\ OneSession /\ MountPoints /\ Volumes /\ Counted /\ Stopping

-----------------------------------------------------------------------------
(* The sessions, and the number that is none.                              *)
LEMMA SessionsAre ==
  /\ NULL \notin Sessions /\ 0..MaxSessions = Sessions \cup {NULL}
  /\ IsFiniteSet(Sessions)
BY FS_Interval, SessionAssumption DEF Sessions, NULL

(* Everybody has a place of its own.                                       *)
LEMMA ThreadsAre ==
  /\ Daemons \subseteq Processes /\ Helpers \subseteq Processes
  /\ Processes \subseteq Threads /\ Unmounter \in Threads
  /\ Unloader \in Threads /\ Unmounter # Unloader
  /\ Unmounter \notin Processes /\ Unloader \notin Processes
  /\ \A p \in Daemons : p \notin Helpers
BY SessionAssumption DEF Threads, Processes

(* What is done to the record of a session keeps its type.                 *)
LEMMA SetTyped ==
  ASSUME sess \in [Sessions -> Data], NEW s
  PROVE  /\ SetDead(s) => sess' \in [Sessions -> Data]
         /\ \A b \in BOOLEAN :
              Set(s, "mounted", b) => sess' \in [Sessions -> Data]
         /\ sess' = [sess EXCEPT ![s].call = "none", ![s].dead = TRUE]
              => sess' \in [Sessions -> Data]
         /\ sess' = [sess EXCEPT ![s].dead = TRUE, ![s].call = Cut(@)]
              => sess' \in [Sessions -> Data]
<1>1. SetDead(s) => sess' \in [Sessions -> Data]
  BY ZenonT(60) DEF SetDead, Set, Data
<1>2. \A b \in BOOLEAN : Set(s, "mounted", b) => sess' \in [Sessions -> Data]
  BY ZenonT(60) DEF Set, Data
<1> DEFINE called == [sess EXCEPT ![s].call = "none"]
           died   == [sess EXCEPT ![s].dead = TRUE]
<1>3. called \in [Sessions -> Data] /\ died \in [Sessions -> Data]
  BY DEF Data
<1>4. /\ [sess EXCEPT ![s].call = "none", ![s].dead = TRUE]
           = [called EXCEPT ![s].dead = TRUE]
      /\ [sess EXCEPT ![s].dead = TRUE, ![s].call = Cut(@)]
           = [died EXCEPT ![s].call = Cut(@)]
  OBVIOUS
<1> HIDE DEF called, died
<1>5. [called EXCEPT ![s].dead = TRUE] \in [Sessions -> Data]
  BY <1>3, ZenonT(60) DEF Data
<1>6. [died EXCEPT ![s].call = Cut(@)] \in [Sessions -> Data]
  <2>1. CASE s \in Sessions
    <3>1. died[s].call
            \in {"none", "sent", "read", "answered", "refused", "cut"}
      BY <1>3, <2>1 DEF Data
    <3>2. Cut(died[s].call)
            \in {"none", "sent", "read", "answered", "refused", "cut"}
      BY <3>1 DEF Cut
    <3>3. [died EXCEPT ![s].call = Cut(@)]
            = [died EXCEPT ![s].call = Cut(died[s].call)]
      BY <1>3, <2>1
    <3> QED BY <1>3, <3>2, <3>3, ZenonT(60) DEF Data
  <2>2. CASE s \notin Sessions
    BY <1>3, <2>2
  <2> QED BY <2>1, <2>2
<1> QED BY <1>1, <1>2, <1>4, <1>5, <1>6

(* Marking a session dead changes nothing else.                            *)
LEMMA SetDeadEffect ==
  ASSUME sess \in [Sessions -> Data], NEW s, SetDead(s)
  PROVE  /\ \A r \in Sessions : /\ sess'[r].opened = sess[r].opened
                                /\ sess'[r].mounted = sess[r].mounted
                                /\ sess[r].dead => sess'[r].dead
         /\ \A r \in Sessions \ {s} : sess'[r].dead = sess[r].dead
         /\ s \in Sessions => sess'[s].dead
BY DEF SetDead, Set, Data

(* A request that is sent, read, answered or over changes only that.       *)
LEMMA CallEffect ==
  ASSUME sess \in [Sessions -> Data], NEW s, NEW c,
         sess' = [sess EXCEPT ![s]["call"] = c]
  PROVE  \A r \in Sessions : /\ sess'[r].opened = sess[r].opened
                             /\ sess'[r].mounted = sess[r].mounted
                             /\ sess'[r].dead = sess[r].dead
BY DEF Data

(* A request that is given up ends its session too.                        *)
LEMMA GivenUpEffect ==
  ASSUME sess \in [Sessions -> Data], NEW s,
         sess' = [sess EXCEPT ![s].call = "none", ![s].dead = TRUE]
  PROVE  \A r \in Sessions : /\ sess'[r].opened = sess[r].opened
                             /\ sess'[r].mounted = sess[r].mounted
                             /\ sess'[r].dead = (sess[r].dead \/ r = s)
BY DEF Data

(* What a step does to sessions that it does not open, mount or unmount.   *)
LEMMA OneSessionKept ==
  ASSUME OneSession, MountPoints, data' = data, destroyed' = destroyed,
         \A s \in Sessions : /\ sess'[s].opened = sess[s].opened
                             /\ sess'[s].mounted = sess[s].mounted
                             /\ sess[s].dead => sess'[s].dead
                             /\ sess'[s].dead => s \in Made,
         \A s \in Sessions : volume'[s] # "none" <=> volume[s] # "none"
  PROVE  OneSession' /\ MountPoints'
<1>1. Made' = Made
  BY DEF Made
<1> QED BY <1>1 DEF OneSession, MountPoints

(* The same of those that it does.                                         *)
LEMMA OneSessionMoves ==
  ASSUME OneSession,
         \A s \in Sessions :
           /\ data' = s <=> sess'[s].opened \/ sess'[s].mounted
           /\ s \in destroyed' <=> s \in Made /\ data' # s
           /\ sess'[s].opened \/ sess'[s].dead <=> s \in Made,
         data' \in {data, NULL},
         \A s \in Sessions : volume'[s] # "none" <=> sess'[s].mounted
  PROVE  OneSession' /\ MountPoints'
<1>1. Made' = Made
  BY DEF Made
<1> QED BY <1>1 DEF OneSession, MountPoints

(* Counting one mount point more or less.                                  *)
LEMMA CountKept ==
  ASSUME Counted, mounts' = mounts,
         \A s \in Sessions : volume'[s] # "none" <=> volume[s] # "none"
  PROVE  Counted'
<1>1. Mounted' = Mounted
  BY DEF Mounted
<1> QED BY <1>1 DEF Counted

(* fuse_mount_count goes up with a mount point that is made ...            *)
LEMMA CountMore ==
  ASSUME Counted, NEW s \in Sessions,
         volume \in
           [Sessions -> {"none", "mounting", "mounted", "unmounting"}],
         volume[s] = "none", mounts' = mounts + 1,
         volume' = [volume EXCEPT ![s] = "mounting"]
  PROVE  Counted'
<1>1. IsFiniteSet(Mounted)
  BY SessionsAre, FS_Subset DEF Mounted
<1>2. Mounted' = Mounted \cup {s} /\ s \notin Mounted
  BY DEF Mounted
<1> QED BY <1>1, <1>2, FS_AddElement DEF Counted

(* ... and down with one that goes.                                        *)
LEMMA CountLess ==
  ASSUME Counted, NEW s \in Sessions,
         volume \in
           [Sessions -> {"none", "mounting", "mounted", "unmounting"}],
         volume[s] # "none", mounts' = mounts - 1,
         volume' = [volume EXCEPT ![s] = "none"]
  PROVE  Counted'
<1>1. IsFiniteSet(Mounted)
  BY SessionsAre, FS_Subset DEF Mounted
<1>2. Mounted' = Mounted \ {s} /\ s \in Mounted
  BY DEF Mounted
<1> QED BY <1>1, <1>2, FS_RemoveElement DEF Counted

(* Every step keeps the types: the one that changes the record of a session*)
(* leaves a record, and usecount is never counted twice.                   *)
LEMMA TypedStep ==
  ASSUME IInv, Next
  PROVE  Typed'
<1>1. ASSUME NEW d \in Daemons, Open(d)
      PROVE  Typed'
  BY <1>1, ThreadsAre, SessionsAre, SMTT(60)
  DEF Open, Goto, kext, device, locks, mp, thread, IInv, Typed, Data, Placed,
      Exclusive, Sharing, InSession, Last, Holds, AtVolume
<1>2. ASSUME NEW d \in Daemons, OpenGlobal(d)
      PROVE  Typed'
  BY <1>2, ThreadsAre, SessionsAre, SMTT(60)
  DEF OpenGlobal, Goto, InUse, kext, device, locks, mp, thread, IInv, Typed,
      Data, Placed, Exclusive, Sharing, InSession, Last, Holds, AtVolume
<1>3. ASSUME NEW d \in Daemons, OpenStopped(d)
      PROVE  Typed'
  BY <1>3, ThreadsAre, SessionsAre, SMTT(60)
  DEF OpenStopped, Goto, kext, device, locks, mp, thread, IInv, Typed, Data,
      Placed, Exclusive, Sharing, InSession, Last, Holds, AtVolume
<1>4. ASSUME NEW d \in Daemons, OpenLocal(d)
      PROVE  Typed'
  BY <1>4, ThreadsAre, SessionsAre, SMTT(60)
  DEF OpenLocal, Goto, kext, device, locks, mp, thread, IInv, Typed, Data,
      Placed, Exclusive, Sharing, InSession, Last, Holds, AtVolume
<1>5. ASSUME NEW d \in Daemons, OpenAlloc(d)
      PROVE  Typed'
  <2>1. sess' \in [Sessions -> Data]
    <3>1. NewSession \in Data
      <4>1. NoData \in Data
        <5>1. 0 \in 0..MaxMounts
          BY SessionAssumption
        <5> QED BY <5>1 DEF NoData, Data
      <4> QED BY <4>1 DEF NewSession, Data
    <3>2. \/ sess' = sess
          \/ \E s \in Sessions : sess' = [sess EXCEPT ![s] = NewSession]
      BY <1>5, Zenon DEF OpenAlloc, vars, locks
    <3> QED BY <3>1, <3>2 DEF IInv, Typed
  <2>2. available' \in BOOLEAN
    BY <1>5, Zenon
    DEF OpenAlloc, Goto, NewSession, NoData, kext, device, locks, mp, thread,
        IInv, Typed
  <2>3. installed' \in {"yes", "no_devices", "no"}
    BY <1>5
    DEF OpenAlloc, Goto, NewSession, NoData, kext, device, locks, mp, thread,
        IInv, Typed
  <2>4. usecount' \in 0..1
    BY <1>5, ThreadsAre
    DEF OpenAlloc, Goto, NewSession, NoData, kext, device, locks, mp, thread,
        IInv, Typed, Exclusive, Holds, Last
  <2>5. data' \in Sessions \cup {NULL} /\ destroyed' \subseteq Sessions
    BY <1>5, ThreadsAre, SessionsAre
    DEF OpenAlloc, Goto, NewSession, NoData, kext, device, locks, mp, thread,
        IInv, Typed, Sharing, InSession, Last, Volumes
  <2>6. /\ global' \in Threads \cup {NoOne} /\ local' \in Threads \cup {NoOne}
        /\ big' \in [Sessions -> Threads \cup {NoOne}]
    BY <1>5, ThreadsAre
    DEF OpenAlloc, Goto, NewSession, NoData, kext, device, locks, mp, thread,
        IInv, Typed
  <2>7. fds' \in [Sessions -> SUBSET Processes]
    BY <1>5, ThreadsAre, SessionsAre
    DEF OpenAlloc, Goto, NewSession, NoData, kext, device, locks, mp, thread,
        IInv, Typed
  <2>8. volume' \in [Sessions -> {"none", "mounting", "mounted", "unmounting"}]
    BY <1>5, ThreadsAre, SessionsAre
    DEF OpenAlloc, Goto, NewSession, NoData, kext, device, locks, mp, thread,
        IInv, Typed
  <2>9. ses' \in [Threads -> Sessions \cup {NULL}]
    BY <1>5, ThreadsAre, SessionsAre
    DEF OpenAlloc, Goto, NewSession, NoData, kext, device, locks, mp, thread,
        IInv, Typed, Sharing, InSession, Last
  <2> QED BY <2>1, <2>2, <2>3, <2>4, <2>5, <2>6, <2>7, <2>8, <2>9 DEF Typed
<1>6. ASSUME NEW d \in Daemons, OpenBusy(d)
      PROVE  Typed'
  BY <1>6, ThreadsAre, SessionsAre, SMTT(60)
  DEF OpenBusy, Goto, kext, device, locks, mp, thread, IInv, Typed, Data,
      Placed, Exclusive, Sharing, InSession, Last, Holds, AtVolume
<1>7. ASSUME NEW d \in Daemons, Read(d)
      PROVE  Typed'
  BY <1>7, ThreadsAre, SessionsAre, SMTT(60)
  DEF Read, Set, kext, device, locks, mp, thread, IInv, Typed, Data, Placed,
      Exclusive, Sharing, InSession, Last, Holds, AtVolume
<1>8. ASSUME NEW d \in Daemons, Reply(d)
      PROVE  Typed'
  BY <1>8, ThreadsAre, SessionsAre, SMTT(60)
  DEF Reply, Set, kext, device, locks, mp, thread, IInv, Typed, Data, Placed,
      Exclusive, Sharing, InSession, Last, Holds, AtVolume
<1>9. ASSUME NEW d \in Daemons, NEW h \in Helpers, Fork(d, h)
      PROVE  Typed'
  <2>1. sess' \in [Sessions -> Data]
    <3>1. ses[d] \in Sessions
      BY <1>9, SessionsAre, ThreadsAre
      DEF Fork, IInv, Sharing, InSession
    <3> QED BY <1>9, <3>1, SessionsAre, SessionAssumption, SMTT(60)
        DEF Fork, Goto, Set, IInv, Typed, Data
  <2>2. available' \in BOOLEAN
    BY <1>9, Zenon
    DEF Fork, Goto, Set, kext, device, locks, mp, thread, IInv, Typed
  <2>3. installed' \in {"yes", "no_devices", "no"}
    BY <1>9
    DEF Fork, Goto, Set, kext, device, locks, mp, thread, IInv, Typed
  <2>4. usecount' \in 0..1
    BY <1>9, ThreadsAre
    DEF Fork, Goto, Set, kext, device, locks, mp, thread, IInv, Typed,
        Exclusive, Holds, Last
  <2>5. data' \in Sessions \cup {NULL} /\ destroyed' \subseteq Sessions
    BY <1>9, ThreadsAre, SessionsAre
    DEF Fork, Goto, Set, kext, device, locks, mp, thread, IInv, Typed,
        Sharing, InSession, Last, Volumes
  <2>6. /\ global' \in Threads \cup {NoOne} /\ local' \in Threads \cup {NoOne}
        /\ big' \in [Sessions -> Threads \cup {NoOne}]
    BY <1>9, ThreadsAre
    DEF Fork, Goto, Set, kext, device, locks, mp, thread, IInv, Typed
  <2>7. fds' \in [Sessions -> SUBSET Processes]
    BY <1>9, ThreadsAre, SessionsAre
    DEF Fork, Goto, Set, kext, device, locks, mp, thread, IInv, Typed
  <2>8. volume' \in [Sessions -> {"none", "mounting", "mounted", "unmounting"}]
    BY <1>9, ThreadsAre, SessionsAre
    DEF Fork, Goto, Set, kext, device, locks, mp, thread, IInv, Typed
  <2>9. ses' \in [Threads -> Sessions \cup {NULL}]
    BY <1>9, ThreadsAre, SessionsAre
    DEF Fork, Goto, Set, kext, device, locks, mp, thread, IInv, Typed,
        Sharing, InSession, Last
  <2> QED BY <2>1, <2>2, <2>3, <2>4, <2>5, <2>6, <2>7, <2>8, <2>9 DEF Typed
<1>10. ASSUME NEW p \in Processes, Exit(p)
       PROVE  Typed'
  BY <1>10, ThreadsAre, SessionsAre, SMTT(60)
  DEF Exit, kext, device, locks, mp, thread, IInv, Typed, Data, Placed,
      Exclusive, Sharing, InSession, Last, Holds, AtVolume
<1>11. ASSUME NEW p \in Processes, Close(p)
       PROVE  Typed'
  <2>1. sess' \in [Sessions -> Data]
    <3>1. SetDead(data)
      BY <1>11, Zenon DEF Close
    <3> QED BY <3>1, SetTyped DEF IInv, Typed
  <2>2. available' \in BOOLEAN
    BY <1>11, Zenon
    DEF Close, Goto, SetDead, Set, kext, device, locks, mp, thread, IInv,
        Typed
  <2>3. installed' \in {"yes", "no_devices", "no"}
    BY <1>11
    DEF Close, Goto, SetDead, Set, kext, device, locks, mp, thread, IInv,
        Typed
  <2>4. usecount' \in 0..1
    BY <1>11, ThreadsAre
    DEF Close, Goto, SetDead, Set, kext, device, locks, mp, thread, IInv,
        Typed, Exclusive, Holds, Last
  <2>5. data' \in Sessions \cup {NULL} /\ destroyed' \subseteq Sessions
    BY <1>11, ThreadsAre, SessionsAre
    DEF Close, Goto, SetDead, Set, kext, device, locks, mp, thread, IInv,
        Typed, Sharing, InSession, Last, Volumes
  <2>6. /\ global' \in Threads \cup {NoOne} /\ local' \in Threads \cup {NoOne}
        /\ big' \in [Sessions -> Threads \cup {NoOne}]
    BY <1>11, ThreadsAre
    DEF Close, Goto, SetDead, Set, kext, device, locks, mp, thread, IInv,
        Typed
  <2>7. fds' \in [Sessions -> SUBSET Processes]
    BY <1>11, ThreadsAre, SessionsAre
    DEF Close, Goto, SetDead, Set, kext, device, locks, mp, thread, IInv,
        Typed
  <2>8. volume' \in [Sessions -> {"none", "mounting", "mounted", "unmounting"}]
    BY <1>11, ThreadsAre, SessionsAre
    DEF Close, Goto, SetDead, Set, kext, device, locks, mp, thread, IInv,
        Typed
  <2>9. ses' \in [Threads -> Sessions \cup {NULL}]
    BY <1>11, ThreadsAre, SessionsAre
    DEF Close, Goto, SetDead, Set, kext, device, locks, mp, thread, IInv,
        Typed, Sharing, InSession, Last
  <2> QED BY <2>1, <2>2, <2>3, <2>4, <2>5, <2>6, <2>7, <2>8, <2>9 DEF Typed
<1>12. ASSUME NEW p \in Processes, CloseLocal(p)
       PROVE  Typed'
  <2>1. sess' \in [Sessions -> Data]
    <3>1. PICK s : sess' = [sess EXCEPT ![s].opened = FALSE,
                     ![s].call = IF LeftForUnmount(s) THEN Cut(@) ELSE @]
      BY <1>12, Zenon DEF CloseLocal
    <3> DEFINE shut == [sess EXCEPT ![s].opened = FALSE]
    <3>2. shut \in [Sessions -> Data]
      <4>1. sess \in [Sessions -> Data]
        BY DEF IInv, Typed
      <4> QED BY <4>1, ZenonT(30) DEF Data
    <3>3. sess' = [shut EXCEPT
                     ![s].call = IF LeftForUnmount(s) THEN Cut(@) ELSE @]
      BY <3>1
    <3> DEFINE calls == {"none", "sent", "read", "answered", "refused", "cut"}
               left == IF LeftForUnmount(s) THEN Cut(shut[s].call)
                       ELSE shut[s].call
    <3>4. s \in Sessions => left \in calls
      BY <3>2 DEF Cut, Data
    <3>5. sess' = [shut EXCEPT ![s].call = left]
      BY <3>3
    <3> HIDE DEF shut, left
    <3> QED BY <3>2, <3>4, <3>5, ZenonT(30) DEF Data
  <2>2. available' \in BOOLEAN
    BY <1>12, Zenon
    DEF CloseLocal, Goto, LeftForUnmount, Cut, kext, device, locks, mp,
        thread, IInv, Typed
  <2>3. installed' \in {"yes", "no_devices", "no"}
    BY <1>12
    DEF CloseLocal, Goto, LeftForUnmount, Cut, kext, device, locks, mp,
        thread, IInv, Typed
  <2>4. usecount' \in 0..1
    BY <1>12, ThreadsAre
    DEF CloseLocal, Goto, LeftForUnmount, Cut, kext, device, locks, mp,
        thread, IInv, Typed, Exclusive, Holds, Last
  <2>5. data' \in Sessions \cup {NULL} /\ destroyed' \subseteq Sessions
    BY <1>12, ThreadsAre, SessionsAre
    DEF CloseLocal, Goto, LeftForUnmount, Cut, kext, device, locks, mp,
        thread, IInv, Typed, Sharing, InSession, Last, Volumes
  <2>6. /\ global' \in Threads \cup {NoOne} /\ local' \in Threads \cup {NoOne}
        /\ big' \in [Sessions -> Threads \cup {NoOne}]
    BY <1>12, ThreadsAre
    DEF CloseLocal, Goto, LeftForUnmount, Cut, kext, device, locks, mp,
        thread, IInv, Typed
  <2>7. fds' \in [Sessions -> SUBSET Processes]
    BY <1>12, ThreadsAre, SessionsAre
    DEF CloseLocal, Goto, LeftForUnmount, Cut, kext, device, locks, mp,
        thread, IInv, Typed
  <2>8. volume' \in [Sessions -> {"none", "mounting", "mounted", "unmounting"}]
    BY <1>12, ThreadsAre, SessionsAre
    DEF CloseLocal, Goto, LeftForUnmount, Cut, kext, device, locks, mp,
        thread, IInv, Typed
  <2>9. ses' \in [Threads -> Sessions \cup {NULL}]
    BY <1>12, ThreadsAre, SessionsAre
    DEF CloseLocal, Goto, LeftForUnmount, Cut, kext, device, locks, mp,
        thread, IInv, Typed, Sharing, InSession, Last
  <2> QED BY <2>1, <2>2, <2>3, <2>4, <2>5, <2>6, <2>7, <2>8, <2>9 DEF Typed
<1>13. ASSUME NEW p \in Processes, CloseUse(p)
       PROVE  Typed'
  BY <1>13, ThreadsAre, SessionsAre, SMTT(60)
  DEF CloseUse, Goto, kext, device, locks, mp, thread, IInv, Typed, Data,
      Placed, Exclusive, Sharing, InSession, Last, Holds, AtVolume
<1>14. ASSUME NEW p \in Processes, SetDaemonDead(p)
       PROVE  Typed'
  <2>1. sess' \in [Sessions -> Data]
    <3>1. SetDead(data) \/ sess' = sess
      BY <1>14, Zenon DEF SetDaemonDead
    <3> QED BY <3>1, SetTyped DEF IInv, Typed
  <2>2. available' \in BOOLEAN
    BY <1>14, Zenon
    DEF SetDaemonDead, Goto, SetDead, Set, kext, device, locks, mp, thread,
        IInv, Typed
  <2>3. installed' \in {"yes", "no_devices", "no"}
    BY <1>14
    DEF SetDaemonDead, Goto, SetDead, Set, kext, device, locks, mp, thread,
        IInv, Typed
  <2>4. usecount' \in 0..1
    BY <1>14, ThreadsAre
    DEF SetDaemonDead, Goto, SetDead, Set, kext, device, locks, mp, thread,
        IInv, Typed, Exclusive, Holds, Last
  <2>5. data' \in Sessions \cup {NULL} /\ destroyed' \subseteq Sessions
    BY <1>14, ThreadsAre, SessionsAre
    DEF SetDaemonDead, Goto, SetDead, Set, kext, device, locks, mp, thread,
        IInv, Typed, Sharing, InSession, Last, Volumes
  <2>6. /\ global' \in Threads \cup {NoOne} /\ local' \in Threads \cup {NoOne}
        /\ big' \in [Sessions -> Threads \cup {NoOne}]
    BY <1>14, ThreadsAre
    DEF SetDaemonDead, Goto, SetDead, Set, kext, device, locks, mp, thread,
        IInv, Typed
  <2>7. fds' \in [Sessions -> SUBSET Processes]
    BY <1>14, ThreadsAre, SessionsAre
    DEF SetDaemonDead, Goto, SetDead, Set, kext, device, locks, mp, thread,
        IInv, Typed
  <2>8. volume' \in [Sessions -> {"none", "mounting", "mounted", "unmounting"}]
    BY <1>14, ThreadsAre, SessionsAre
    DEF SetDaemonDead, Goto, SetDead, Set, kext, device, locks, mp, thread,
        IInv, Typed
  <2>9. ses' \in [Threads -> Sessions \cup {NULL}]
    BY <1>14, ThreadsAre, SessionsAre
    DEF SetDaemonDead, Goto, SetDead, Set, kext, device, locks, mp, thread,
        IInv, Typed, Sharing, InSession, Last
  <2> QED BY <2>1, <2>2, <2>3, <2>4, <2>5, <2>6, <2>7, <2>8, <2>9 DEF Typed
<1>15. ASSUME NEW h \in Helpers, MountLocal(h)
       PROVE  Typed'
  BY <1>15, ThreadsAre, SessionsAre, SMTT(60)
  DEF MountLocal, Goto, kext, device, locks, mp, thread, IInv, Typed, Data,
      Placed, Exclusive, Sharing, InSession, Last, Holds, AtVolume
<1>16. ASSUME NEW h \in Helpers, MountBig(h)
       PROVE  Typed'
  <2>1. sess' \in [Sessions -> Data]
    <3>1. Set(ses[h], "mounted", TRUE) \/ sess' = sess
      BY <1>16, Zenon DEF MountBig
    <3> QED BY <3>1, SetTyped DEF IInv, Typed
  <2>2. available' \in BOOLEAN
    BY <1>16, Zenon
    DEF MountBig, Goto, BigFree, TakeBig, Set, kext, device, locks, mp,
        thread, IInv, Typed
  <2>3. installed' \in {"yes", "no_devices", "no"}
    BY <1>16
    DEF MountBig, Goto, BigFree, TakeBig, Set, kext, device, locks, mp,
        thread, IInv, Typed
  <2>4. usecount' \in 0..1
    BY <1>16, ThreadsAre
    DEF MountBig, Goto, BigFree, TakeBig, Set, kext, device, locks, mp,
        thread, IInv, Typed, Exclusive, Holds, Last
  <2>5. data' \in Sessions \cup {NULL} /\ destroyed' \subseteq Sessions
    BY <1>16, ThreadsAre, SessionsAre
    DEF MountBig, Goto, BigFree, TakeBig, Set, kext, device, locks, mp,
        thread, IInv, Typed, Sharing, InSession, Last, Volumes
  <2>6. /\ global' \in Threads \cup {NoOne} /\ local' \in Threads \cup {NoOne}
        /\ big' \in [Sessions -> Threads \cup {NoOne}]
    BY <1>16, ThreadsAre
    DEF MountBig, Goto, BigFree, TakeBig, Set, kext, device, locks, mp,
        thread, IInv, Typed
  <2>7. fds' \in [Sessions -> SUBSET Processes]
    BY <1>16, ThreadsAre, SessionsAre
    DEF MountBig, Goto, BigFree, TakeBig, Set, kext, device, locks, mp,
        thread, IInv, Typed
  <2>8. volume' \in [Sessions -> {"none", "mounting", "mounted", "unmounting"}]
    BY <1>16, ThreadsAre, SessionsAre
    DEF MountBig, Goto, BigFree, TakeBig, Set, kext, device, locks, mp,
        thread, IInv, Typed
  <2>9. ses' \in [Threads -> Sessions \cup {NULL}]
    BY <1>16, ThreadsAre, SessionsAre
    DEF MountBig, Goto, BigFree, TakeBig, Set, kext, device, locks, mp,
        thread, IInv, Typed, Sharing, InSession, Last
  <2> QED BY <2>1, <2>2, <2>3, <2>4, <2>5, <2>6, <2>7, <2>8, <2>9 DEF Typed
<1>17. ASSUME NEW h \in Helpers, SendInit(h)
       PROVE  Typed'
  BY <1>17, ThreadsAre, SessionsAre, SMTT(60)
  DEF SendInit, Goto, Send, Set, kext, device, locks, mp, thread, IInv,
      Typed, Data, Placed, Exclusive, Sharing, InSession, Last, Holds,
      AtVolume
<1>18. ASSUME NEW h \in Helpers, InitAnswered(h)
       PROVE  Typed'
  BY <1>18, ThreadsAre, SessionsAre, SMTT(60)
  DEF InitAnswered, Goto, kext, device, locks, mp, thread, IInv, Typed, Data,
      Placed, Exclusive, Sharing, InSession, Last, Holds, AtVolume
<1>19. ASSUME NEW h \in Helpers, InitFails(h)
       PROVE  Typed'
  BY <1>19, ThreadsAre, SessionsAre, SMTT(60)
  DEF InitFails, Goto, Ends, Pending, Set, kext, device, locks, mp, thread,
      IInv, Typed, Data, Placed, Exclusive, Sharing, InSession, Last, Holds,
      AtVolume
<1>20. ASSUME NEW h \in Helpers, Statfs(h)
       PROVE  Typed'
  BY <1>20, ThreadsAre, SessionsAre, SMTT(60)
  DEF Statfs, Goto, Send, Set, kext, device, locks, mp, thread, IInv, Typed,
      Data, Placed, Exclusive, Sharing, InSession, Last, Holds, AtVolume
<1>21. ASSUME NEW h \in Helpers, StatfsEnds(h)
       PROVE  Typed'
  BY <1>21, ThreadsAre, SessionsAre, SMTT(60)
  DEF StatfsEnds, Goto, Ends, Pending, Set, kext, device, locks, mp, thread,
      IInv, Typed, Data, Placed, Exclusive, Sharing, InSession, Last, Holds,
      AtVolume
<1>22. ASSUME NEW h \in Helpers, Root(h)
       PROVE  Typed'
  BY <1>22, ThreadsAre, SessionsAre, SMTT(60)
  DEF Root, Goto, kext, device, locks, mp, thread, IInv, Typed, Data, Placed,
      Exclusive, Sharing, InSession, Last, Holds, AtVolume
<1>23. ASSUME NEW h \in Helpers, Unwind(h)
       PROVE  Typed'
  <2>1. sess' \in [Sessions -> Data]
    <3>1. Set(data, "mounted", FALSE) \/ sess' = sess
      BY <1>23, Zenon DEF Unwind
    <3> QED BY <3>1, SetTyped DEF IInv, Typed
  <2>2. available' \in BOOLEAN
    BY <1>23, Zenon
    DEF Unwind, Goto, Uncount, Set, DropBig, kext, device, locks, mp, thread,
        IInv, Typed
  <2>3. installed' \in {"yes", "no_devices", "no"}
    BY <1>23
    DEF Unwind, Goto, Uncount, Set, DropBig, kext, device, locks, mp, thread,
        IInv, Typed
  <2>4. usecount' \in 0..1
    BY <1>23, ThreadsAre
    DEF Unwind, Goto, Uncount, Set, DropBig, kext, device, locks, mp, thread,
        IInv, Typed, Exclusive, Holds, Last
  <2>5. data' \in Sessions \cup {NULL} /\ destroyed' \subseteq Sessions
    BY <1>23, ThreadsAre, SessionsAre
    DEF Unwind, Goto, Uncount, Set, DropBig, kext, device, locks, mp, thread,
        IInv, Typed, Sharing, InSession, Last, Volumes
  <2>6. /\ global' \in Threads \cup {NoOne} /\ local' \in Threads \cup {NoOne}
        /\ big' \in [Sessions -> Threads \cup {NoOne}]
    BY <1>23, ThreadsAre
    DEF Unwind, Goto, Uncount, Set, DropBig, kext, device, locks, mp, thread,
        IInv, Typed
  <2>7. fds' \in [Sessions -> SUBSET Processes]
    BY <1>23, ThreadsAre, SessionsAre
    DEF Unwind, Goto, Uncount, Set, DropBig, kext, device, locks, mp, thread,
        IInv, Typed
  <2>8. volume' \in [Sessions -> {"none", "mounting", "mounted", "unmounting"}]
    BY <1>23, ThreadsAre, SessionsAre
    DEF Unwind, Goto, Uncount, Set, DropBig, kext, device, locks, mp, thread,
        IInv, Typed
  <2>9. ses' \in [Threads -> Sessions \cup {NULL}]
    BY <1>23, ThreadsAre, SessionsAre
    DEF Unwind, Goto, Uncount, Set, DropBig, kext, device, locks, mp, thread,
        IInv, Typed, Sharing, InSession, Last
  <2> QED BY <2>1, <2>2, <2>3, <2>4, <2>5, <2>6, <2>7, <2>8, <2>9 DEF Typed
<1>24. ASSUME NEW h \in Helpers, Finish(h)
       PROVE  Typed'
  BY <1>24, ThreadsAre, SessionsAre, SMTT(60)
  DEF Finish, Goto, DropBig, kext, device, locks, mp, thread, IInv, Typed,
      Data, Placed, Exclusive, Sharing, InSession, Last, Holds, AtVolume
<1>25. ASSUME NEW h \in Helpers, Signal(h)
       PROVE  Typed'
  BY <1>25, ThreadsAre, SessionsAre, SMTT(60)
  DEF Signal, Goto, Pending, Set, kext, device, locks, mp, thread, IInv,
      Typed, Data, Placed, Exclusive, Sharing, InSession, Last, Holds,
      AtVolume
<1>26. CASE Unmount
  BY <1>26, ThreadsAre, SessionsAre, SMTT(60)
  DEF Unmount, Goto, u, kext, device, locks, mp, thread, IInv, Typed, Data,
      Placed, Exclusive, Sharing, InSession, Last, Holds, AtVolume
<1>27. CASE UnmountBegins
  <2>1. sess' \in [Sessions -> Data]
    <3>1. SetDead(ses[u]) \/ sess' = sess
      BY <1>27, Zenon DEF UnmountBegins
    <3> QED BY <3>1, SetTyped DEF IInv, Typed
  <2>2. available' \in BOOLEAN
    BY <1>27, Zenon
    DEF UnmountBegins, Goto, u, BigFree, SetDead, Set, kext, device, locks,
        mp, thread, IInv, Typed
  <2>3. installed' \in {"yes", "no_devices", "no"}
    BY <1>27
    DEF UnmountBegins, Goto, u, BigFree, SetDead, Set, kext, device, locks,
        mp, thread, IInv, Typed
  <2>4. usecount' \in 0..1
    BY <1>27, ThreadsAre
    DEF UnmountBegins, Goto, u, BigFree, SetDead, Set, kext, device, locks,
        mp, thread, IInv, Typed, Exclusive, Holds, Last
  <2>5. data' \in Sessions \cup {NULL} /\ destroyed' \subseteq Sessions
    BY <1>27, ThreadsAre, SessionsAre
    DEF UnmountBegins, Goto, u, BigFree, SetDead, Set, kext, device, locks,
        mp, thread, IInv, Typed, Sharing, InSession, Last, Volumes
  <2>6. /\ global' \in Threads \cup {NoOne} /\ local' \in Threads \cup {NoOne}
        /\ big' \in [Sessions -> Threads \cup {NoOne}]
    BY <1>27, ThreadsAre
    DEF UnmountBegins, Goto, u, BigFree, SetDead, Set, kext, device, locks,
        mp, thread, IInv, Typed
  <2>7. fds' \in [Sessions -> SUBSET Processes]
    BY <1>27, ThreadsAre, SessionsAre
    DEF UnmountBegins, Goto, u, BigFree, SetDead, Set, kext, device, locks,
        mp, thread, IInv, Typed
  <2>8. volume' \in [Sessions -> {"none", "mounting", "mounted", "unmounting"}]
    BY <1>27, ThreadsAre, SessionsAre
    DEF UnmountBegins, Goto, u, BigFree, SetDead, Set, kext, device, locks,
        mp, thread, IInv, Typed
  <2>9. ses' \in [Threads -> Sessions \cup {NULL}]
    BY <1>27, ThreadsAre, SessionsAre
    DEF UnmountBegins, Goto, u, BigFree, SetDead, Set, kext, device, locks,
        mp, thread, IInv, Typed, Sharing, InSession, Last
  <2> QED BY <2>1, <2>2, <2>3, <2>4, <2>5, <2>6, <2>7, <2>8, <2>9 DEF Typed
<1>28. CASE UnmountBusy
  <2>1. sess' \in [Sessions -> Data]
    BY <1>28 DEF UnmountBusy, IInv, Typed
  <2>2. available' \in BOOLEAN
    BY <1>28, Zenon
    DEF UnmountBusy, Goto, u, BigFree, kext, device, locks, mp, thread, IInv,
        Typed
  <2>3. installed' \in {"yes", "no_devices", "no"}
    BY <1>28
    DEF UnmountBusy, Goto, u, BigFree, kext, device, locks, mp, thread, IInv,
        Typed
  <2>4. usecount' \in 0..1
    BY <1>28, ThreadsAre
    DEF UnmountBusy, Goto, u, BigFree, kext, device, locks, mp, thread, IInv,
        Typed, Exclusive, Holds, Last
  <2>5. data' \in Sessions \cup {NULL} /\ destroyed' \subseteq Sessions
    BY <1>28, ThreadsAre, SessionsAre
    DEF UnmountBusy, Goto, u, BigFree, kext, device, locks, mp, thread, IInv,
        Typed, Sharing, InSession, Last, Volumes
  <2>6. /\ global' \in Threads \cup {NoOne} /\ local' \in Threads \cup {NoOne}
        /\ big' \in [Sessions -> Threads \cup {NoOne}]
    BY <1>28, ThreadsAre
    DEF UnmountBusy, Goto, u, BigFree, kext, device, locks, mp, thread, IInv,
        Typed
  <2>7. fds' \in [Sessions -> SUBSET Processes]
    BY <1>28, ThreadsAre, SessionsAre
    DEF UnmountBusy, Goto, u, BigFree, kext, device, locks, mp, thread, IInv,
        Typed
  <2>8. volume' \in [Sessions -> {"none", "mounting", "mounted", "unmounting"}]
    BY <1>28, ThreadsAre, SessionsAre
    DEF UnmountBusy, Goto, u, BigFree, kext, device, locks, mp, thread, IInv,
        Typed
  <2>9. ses' \in [Threads -> Sessions \cup {NULL}]
    BY <1>28, ThreadsAre, SessionsAre
    DEF UnmountBusy, Goto, u, BigFree, kext, device, locks, mp, thread, IInv,
        Typed, Sharing, InSession, Last
  <2> QED BY <2>1, <2>2, <2>3, <2>4, <2>5, <2>6, <2>7, <2>8, <2>9 DEF Typed
<1>29. CASE UnmountFlushed
  <2>1. sess' \in [Sessions -> Data]
    BY <1>29 DEF UnmountFlushed, IInv, Typed
  <2>2. available' \in BOOLEAN
    BY <1>29, Zenon
    DEF UnmountFlushed, Goto, u, BigFree, TakeBig, kext, device, locks, mp,
        thread, IInv, Typed
  <2>3. installed' \in {"yes", "no_devices", "no"}
    BY <1>29
    DEF UnmountFlushed, Goto, u, BigFree, TakeBig, kext, device, locks, mp,
        thread, IInv, Typed
  <2>4. usecount' \in 0..1
    BY <1>29, ThreadsAre
    DEF UnmountFlushed, Goto, u, BigFree, TakeBig, kext, device, locks, mp,
        thread, IInv, Typed, Exclusive, Holds, Last
  <2>5. data' \in Sessions \cup {NULL} /\ destroyed' \subseteq Sessions
    BY <1>29, ThreadsAre, SessionsAre
    DEF UnmountFlushed, Goto, u, BigFree, TakeBig, kext, device, locks, mp,
        thread, IInv, Typed, Sharing, InSession, Last, Volumes
  <2>6. /\ global' \in Threads \cup {NoOne} /\ local' \in Threads \cup {NoOne}
        /\ big' \in [Sessions -> Threads \cup {NoOne}]
    BY <1>29, ThreadsAre
    DEF UnmountFlushed, Goto, u, BigFree, TakeBig, kext, device, locks, mp,
        thread, IInv, Typed
  <2>7. fds' \in [Sessions -> SUBSET Processes]
    BY <1>29, ThreadsAre, SessionsAre
    DEF UnmountFlushed, Goto, u, BigFree, TakeBig, kext, device, locks, mp,
        thread, IInv, Typed
  <2>8. volume' \in [Sessions -> {"none", "mounting", "mounted", "unmounting"}]
    BY <1>29, ThreadsAre, SessionsAre
    DEF UnmountFlushed, Goto, u, BigFree, TakeBig, kext, device, locks, mp,
        thread, IInv, Typed
  <2>9. ses' \in [Threads -> Sessions \cup {NULL}]
    BY <1>29, ThreadsAre, SessionsAre
    DEF UnmountFlushed, Goto, u, BigFree, TakeBig, kext, device, locks, mp,
        thread, IInv, Typed, Sharing, InSession, Last
  <2> QED BY <2>1, <2>2, <2>3, <2>4, <2>5, <2>6, <2>7, <2>8, <2>9 DEF Typed
<1>30. CASE SendDestroy
  BY <1>30, ThreadsAre, SessionsAre, SMTT(60)
  DEF SendDestroy, Goto, u, Send, Set, kext, device, locks, mp, thread, IInv,
      Typed, Data, Placed, Exclusive, Sharing, InSession, Last, Holds,
      AtVolume
<1>31. CASE DestroyEnds
  <2>1. sess' \in [Sessions -> Data]
    <3>1. sess' = [sess EXCEPT ![ses[u]].call = "none", ![ses[u]].dead = TRUE]
      BY <1>31, Zenon DEF DestroyEnds
    <3> QED BY <3>1, SetTyped DEF IInv, Typed
  <2>2. available' \in BOOLEAN
    BY <1>31, Zenon
    DEF DestroyEnds, Goto, u, kext, device, locks, mp, thread, IInv, Typed
  <2>3. installed' \in {"yes", "no_devices", "no"}
    BY <1>31
    DEF DestroyEnds, Goto, u, kext, device, locks, mp, thread, IInv, Typed
  <2>4. usecount' \in 0..1
    BY <1>31, ThreadsAre
    DEF DestroyEnds, Goto, u, kext, device, locks, mp, thread, IInv, Typed,
        Exclusive, Holds, Last
  <2>5. data' \in Sessions \cup {NULL} /\ destroyed' \subseteq Sessions
    BY <1>31, ThreadsAre, SessionsAre
    DEF DestroyEnds, Goto, u, kext, device, locks, mp, thread, IInv, Typed,
        Sharing, InSession, Last, Volumes
  <2>6. /\ global' \in Threads \cup {NoOne} /\ local' \in Threads \cup {NoOne}
        /\ big' \in [Sessions -> Threads \cup {NoOne}]
    BY <1>31, ThreadsAre
    DEF DestroyEnds, Goto, u, kext, device, locks, mp, thread, IInv, Typed
  <2>7. fds' \in [Sessions -> SUBSET Processes]
    BY <1>31, ThreadsAre, SessionsAre
    DEF DestroyEnds, Goto, u, kext, device, locks, mp, thread, IInv, Typed
  <2>8. volume' \in [Sessions -> {"none", "mounting", "mounted", "unmounting"}]
    BY <1>31, ThreadsAre, SessionsAre
    DEF DestroyEnds, Goto, u, kext, device, locks, mp, thread, IInv, Typed
  <2>9. ses' \in [Threads -> Sessions \cup {NULL}]
    BY <1>31, ThreadsAre, SessionsAre
    DEF DestroyEnds, Goto, u, kext, device, locks, mp, thread, IInv, Typed,
        Sharing, InSession, Last
  <2> QED BY <2>1, <2>2, <2>3, <2>4, <2>5, <2>6, <2>7, <2>8, <2>9 DEF Typed
<1>32. CASE Release
  <2>1. sess' \in [Sessions -> Data]
    BY <1>32 DEF Release, IInv, Typed
  <2>2. available' \in BOOLEAN
    BY <1>32, Zenon
    DEF Release, Goto, u, DropBig, kext, device, locks, mp, thread, IInv,
        Typed
  <2>3. installed' \in {"yes", "no_devices", "no"}
    BY <1>32
    DEF Release, Goto, u, DropBig, kext, device, locks, mp, thread, IInv,
        Typed
  <2>4. usecount' \in 0..1
    BY <1>32, ThreadsAre
    DEF Release, Goto, u, DropBig, kext, device, locks, mp, thread, IInv,
        Typed, Exclusive, Holds, Last
  <2>5. data' \in Sessions \cup {NULL} /\ destroyed' \subseteq Sessions
    BY <1>32, ThreadsAre, SessionsAre
    DEF Release, Goto, u, DropBig, kext, device, locks, mp, thread, IInv,
        Typed, Sharing, InSession, Last, Volumes
  <2>6. /\ global' \in Threads \cup {NoOne} /\ local' \in Threads \cup {NoOne}
        /\ big' \in [Sessions -> Threads \cup {NoOne}]
    BY <1>32, ThreadsAre
    DEF Release, Goto, u, DropBig, kext, device, locks, mp, thread, IInv,
        Typed
  <2>7. fds' \in [Sessions -> SUBSET Processes]
    BY <1>32, ThreadsAre, SessionsAre
    DEF Release, Goto, u, DropBig, kext, device, locks, mp, thread, IInv,
        Typed
  <2>8. volume' \in [Sessions -> {"none", "mounting", "mounted", "unmounting"}]
    BY <1>32, ThreadsAre, SessionsAre
    DEF Release, Goto, u, DropBig, kext, device, locks, mp, thread, IInv,
        Typed
  <2>9. ses' \in [Threads -> Sessions \cup {NULL}]
    BY <1>32, ThreadsAre, SessionsAre
    DEF Release, Goto, u, DropBig, kext, device, locks, mp, thread, IInv,
        Typed, Sharing, InSession, Last
  <2> QED BY <2>1, <2>2, <2>3, <2>4, <2>5, <2>6, <2>7, <2>8, <2>9 DEF Typed
<1>33. CASE Retake
  <2>1. sess' \in [Sessions -> Data]
    BY <1>33 DEF Retake, IInv, Typed
  <2>2. available' \in BOOLEAN
    BY <1>33, Zenon
    DEF Retake, Goto, u, BigFree, TakeBig, kext, device, locks, mp, thread,
        IInv, Typed
  <2>3. installed' \in {"yes", "no_devices", "no"}
    BY <1>33
    DEF Retake, Goto, u, BigFree, TakeBig, kext, device, locks, mp, thread,
        IInv, Typed
  <2>4. usecount' \in 0..1
    BY <1>33, ThreadsAre
    DEF Retake, Goto, u, BigFree, TakeBig, kext, device, locks, mp, thread,
        IInv, Typed, Exclusive, Holds, Last
  <2>5. data' \in Sessions \cup {NULL} /\ destroyed' \subseteq Sessions
    BY <1>33, ThreadsAre, SessionsAre
    DEF Retake, Goto, u, BigFree, TakeBig, kext, device, locks, mp, thread,
        IInv, Typed, Sharing, InSession, Last, Volumes
  <2>6. /\ global' \in Threads \cup {NoOne} /\ local' \in Threads \cup {NoOne}
        /\ big' \in [Sessions -> Threads \cup {NoOne}]
    BY <1>33, ThreadsAre
    DEF Retake, Goto, u, BigFree, TakeBig, kext, device, locks, mp, thread,
        IInv, Typed
  <2>7. fds' \in [Sessions -> SUBSET Processes]
    BY <1>33, ThreadsAre, SessionsAre
    DEF Retake, Goto, u, BigFree, TakeBig, kext, device, locks, mp, thread,
        IInv, Typed
  <2>8. volume' \in [Sessions -> {"none", "mounting", "mounted", "unmounting"}]
    BY <1>33, ThreadsAre, SessionsAre
    DEF Retake, Goto, u, BigFree, TakeBig, kext, device, locks, mp, thread,
        IInv, Typed
  <2>9. ses' \in [Threads -> Sessions \cup {NULL}]
    BY <1>33, ThreadsAre, SessionsAre
    DEF Retake, Goto, u, BigFree, TakeBig, kext, device, locks, mp, thread,
        IInv, Typed, Sharing, InSession, Last
  <2> QED BY <2>1, <2>2, <2>3, <2>4, <2>5, <2>6, <2>7, <2>8, <2>9 DEF Typed
<1>34. CASE Unmounted
  <2>1. sess' \in [Sessions -> Data]
    <3>1. Set(ses[u], "mounted", FALSE)
      BY <1>34, Zenon DEF Unmounted
    <3> QED BY <3>1, SetTyped DEF IInv, Typed
  <2>2. available' \in BOOLEAN
    BY <1>34, Zenon
    DEF Unmounted, Goto, u, Set, Uncount, DropBig, LeftForClose, kext,
        device, locks, mp, thread, IInv, Typed
  <2>3. installed' \in {"yes", "no_devices", "no"}
    BY <1>34
    DEF Unmounted, Goto, u, Set, Uncount, DropBig, LeftForClose, kext,
        device, locks, mp, thread, IInv, Typed
  <2>4. usecount' \in 0..1
    BY <1>34, ThreadsAre
    DEF Unmounted, Goto, u, Set, Uncount, DropBig, LeftForClose, kext,
        device, locks, mp, thread, IInv, Typed, Exclusive, Holds, Last
  <2>5. data' \in Sessions \cup {NULL} /\ destroyed' \subseteq Sessions
    BY <1>34, ThreadsAre, SessionsAre
    DEF Unmounted, Goto, u, Set, Uncount, DropBig, LeftForClose, kext,
        device, locks, mp, thread, IInv, Typed, Sharing, InSession, Last,
        Volumes
  <2>6. /\ global' \in Threads \cup {NoOne} /\ local' \in Threads \cup {NoOne}
        /\ big' \in [Sessions -> Threads \cup {NoOne}]
    BY <1>34, ThreadsAre
    DEF Unmounted, Goto, u, Set, Uncount, DropBig, LeftForClose, kext,
        device, locks, mp, thread, IInv, Typed
  <2>7. fds' \in [Sessions -> SUBSET Processes]
    BY <1>34, ThreadsAre, SessionsAre
    DEF Unmounted, Goto, u, Set, Uncount, DropBig, LeftForClose, kext,
        device, locks, mp, thread, IInv, Typed
  <2>8. volume' \in [Sessions -> {"none", "mounting", "mounted", "unmounting"}]
    BY <1>34, ThreadsAre, SessionsAre
    DEF Unmounted, Goto, u, Set, Uncount, DropBig, LeftForClose, kext,
        device, locks, mp, thread, IInv, Typed
  <2>9. ses' \in [Threads -> Sessions \cup {NULL}]
    BY <1>34, ThreadsAre, SessionsAre
    DEF Unmounted, Goto, u, Set, Uncount, DropBig, LeftForClose, kext,
        device, locks, mp, thread, IInv, Typed, Sharing, InSession, Last
  <2> QED BY <2>1, <2>2, <2>3, <2>4, <2>5, <2>6, <2>7, <2>8, <2>9 DEF Typed
<1>35. CASE Kill
  <2>1. sess' \in [Sessions -> Data]
    <3>1. sess' = [sess EXCEPT ![data].dead = TRUE, ![data].call = Cut(@)]
      BY <1>35, Zenon DEF Kill
    <3> QED BY <3>1, SetTyped DEF IInv, Typed
  <2>2. available' \in BOOLEAN
    BY <1>35, Zenon
    DEF Kill, Cut, kext, device, locks, mp, thread, IInv, Typed
  <2>3. installed' \in {"yes", "no_devices", "no"}
    BY <1>35
    DEF Kill, Cut, kext, device, locks, mp, thread, IInv, Typed
  <2>4. usecount' \in 0..1
    BY <1>35, ThreadsAre
    DEF Kill, Cut, kext, device, locks, mp, thread, IInv, Typed, Exclusive,
        Holds, Last
  <2>5. data' \in Sessions \cup {NULL} /\ destroyed' \subseteq Sessions
    BY <1>35, ThreadsAre, SessionsAre
    DEF Kill, Cut, kext, device, locks, mp, thread, IInv, Typed, Sharing,
        InSession, Last, Volumes
  <2>6. /\ global' \in Threads \cup {NoOne} /\ local' \in Threads \cup {NoOne}
        /\ big' \in [Sessions -> Threads \cup {NoOne}]
    BY <1>35, ThreadsAre
    DEF Kill, Cut, kext, device, locks, mp, thread, IInv, Typed
  <2>7. fds' \in [Sessions -> SUBSET Processes]
    BY <1>35, ThreadsAre, SessionsAre
    DEF Kill, Cut, kext, device, locks, mp, thread, IInv, Typed
  <2>8. volume' \in [Sessions -> {"none", "mounting", "mounted", "unmounting"}]
    BY <1>35, ThreadsAre, SessionsAre
    DEF Kill, Cut, kext, device, locks, mp, thread, IInv, Typed
  <2>9. ses' \in [Threads -> Sessions \cup {NULL}]
    BY <1>35, ThreadsAre, SessionsAre
    DEF Kill, Cut, kext, device, locks, mp, thread, IInv, Typed, Sharing,
        InSession, Last
  <2> QED BY <2>1, <2>2, <2>3, <2>4, <2>5, <2>6, <2>7, <2>8, <2>9 DEF Typed
<1>36. CASE Stop
  <2>1. sess' \in [Sessions -> Data]
    BY <1>36 DEF Stop, IInv, Typed
  <2>2. available' \in BOOLEAN
    BY <1>36, Zenon
    DEF Stop, Goto, kext, device, locks, mp, thread, IInv, Typed
  <2>3. installed' \in {"yes", "no_devices", "no"}
    BY <1>36
    DEF Stop, Goto, kext, device, locks, mp, thread, IInv, Typed
  <2>4. usecount' \in 0..1
    BY <1>36, ThreadsAre
    DEF Stop, Goto, kext, device, locks, mp, thread, IInv, Typed, Exclusive,
        Holds, Last
  <2>5. data' \in Sessions \cup {NULL} /\ destroyed' \subseteq Sessions
    BY <1>36, ThreadsAre, SessionsAre
    DEF Stop, Goto, kext, device, locks, mp, thread, IInv, Typed, Sharing,
        InSession, Last, Volumes
  <2>6. /\ global' \in Threads \cup {NoOne} /\ local' \in Threads \cup {NoOne}
        /\ big' \in [Sessions -> Threads \cup {NoOne}]
    BY <1>36, ThreadsAre
    DEF Stop, Goto, kext, device, locks, mp, thread, IInv, Typed
  <2>7. fds' \in [Sessions -> SUBSET Processes]
    BY <1>36, ThreadsAre, SessionsAre
    DEF Stop, Goto, kext, device, locks, mp, thread, IInv, Typed
  <2>8. volume' \in [Sessions -> {"none", "mounting", "mounted", "unmounting"}]
    BY <1>36, ThreadsAre, SessionsAre
    DEF Stop, Goto, kext, device, locks, mp, thread, IInv, Typed
  <2>9. ses' \in [Threads -> Sessions \cup {NULL}]
    BY <1>36, ThreadsAre, SessionsAre
    DEF Stop, Goto, kext, device, locks, mp, thread, IInv, Typed, Sharing,
        InSession, Last
  <2> QED BY <2>1, <2>2, <2>3, <2>4, <2>5, <2>6, <2>7, <2>8, <2>9 DEF Typed
<1>37. CASE StopDevices
  <2>1. sess' \in [Sessions -> Data]
    BY <1>37 DEF StopDevices, IInv, Typed
  <2>2. available' \in BOOLEAN
    BY <1>37, Zenon
    DEF StopDevices, Goto, DeviceInUse, InUse, kext, device, locks, mp,
        thread, IInv, Typed
  <2>3. installed' \in {"yes", "no_devices", "no"}
    BY <1>37
    DEF StopDevices, Goto, DeviceInUse, InUse, kext, device, locks, mp,
        thread, IInv, Typed
  <2>4. usecount' \in 0..1
    BY <1>37, ThreadsAre
    DEF StopDevices, Goto, DeviceInUse, InUse, kext, device, locks, mp,
        thread, IInv, Typed, Exclusive, Holds, Last
  <2>5. data' \in Sessions \cup {NULL} /\ destroyed' \subseteq Sessions
    BY <1>37, ThreadsAre, SessionsAre
    DEF StopDevices, Goto, DeviceInUse, InUse, kext, device, locks, mp,
        thread, IInv, Typed, Sharing, InSession, Last, Volumes
  <2>6. /\ global' \in Threads \cup {NoOne} /\ local' \in Threads \cup {NoOne}
        /\ big' \in [Sessions -> Threads \cup {NoOne}]
    BY <1>37, ThreadsAre
    DEF StopDevices, Goto, DeviceInUse, InUse, kext, device, locks, mp,
        thread, IInv, Typed
  <2>7. fds' \in [Sessions -> SUBSET Processes]
    BY <1>37, ThreadsAre, SessionsAre
    DEF StopDevices, Goto, DeviceInUse, InUse, kext, device, locks, mp,
        thread, IInv, Typed
  <2>8. volume' \in [Sessions -> {"none", "mounting", "mounted", "unmounting"}]
    BY <1>37, ThreadsAre, SessionsAre
    DEF StopDevices, Goto, DeviceInUse, InUse, kext, device, locks, mp,
        thread, IInv, Typed
  <2>9. ses' \in [Threads -> Sessions \cup {NULL}]
    BY <1>37, ThreadsAre, SessionsAre
    DEF StopDevices, Goto, DeviceInUse, InUse, kext, device, locks, mp,
        thread, IInv, Typed, Sharing, InSession, Last
  <2> QED BY <2>1, <2>2, <2>3, <2>4, <2>5, <2>6, <2>7, <2>8, <2>9 DEF Typed
<1>38. CASE StopVfs
  BY <1>38, ThreadsAre, SessionsAre, SMTT(60)
  DEF StopVfs, Goto, Mounting, kext, device, locks, mp, thread, IInv, Typed,
      Data, Placed, Exclusive, Sharing, InSession, Last, Holds, AtVolume
<1>39. CASE Start
  BY <1>39, ThreadsAre, SessionsAre, SMTT(60)
  DEF Start, kext, device, locks, mp, thread, IInv, Typed, Data, Placed,
      Exclusive, Sharing, InSession, Last, Holds, AtVolume
<1>40. CASE UnmountUnlock
  <2>1. sess' \in [Sessions -> Data]
    BY <1>40 DEF UnmountUnlock, IInv, Typed
  <2>2. available' \in BOOLEAN
    BY <1>40, Zenon
    DEF UnmountUnlock, Goto, u, kext, device, locks, mp, thread,
        IInv, Typed
  <2>3. installed' \in {"yes", "no_devices", "no"}
    BY <1>40
    DEF UnmountUnlock, Goto, u, kext, device, locks, mp, thread,
        IInv, Typed
  <2>4. usecount' \in 0..1
    BY <1>40, ThreadsAre
    DEF UnmountUnlock, Goto, u, kext, device, locks, mp, thread,
        IInv, Typed, Exclusive, Holds, Last
  <2>5. data' \in Sessions \cup {NULL} /\ destroyed' \subseteq Sessions
    BY <1>40, ThreadsAre, SessionsAre
    DEF UnmountUnlock, Goto, u, kext, device, locks, mp, thread,
        IInv, Typed, Sharing, InSession, Last, Volumes
  <2>6. /\ global' \in Threads \cup {NoOne} /\ local' \in Threads \cup {NoOne}
        /\ big' \in [Sessions -> Threads \cup {NoOne}]
    BY <1>40, ThreadsAre
    DEF UnmountUnlock, Goto, u, kext, device, locks, mp, thread,
        IInv, Typed
  <2>7. fds' \in [Sessions -> SUBSET Processes]
    BY <1>40, ThreadsAre, SessionsAre
    DEF UnmountUnlock, Goto, u, kext, device, locks, mp, thread,
        IInv, Typed
  <2>8. volume' \in [Sessions -> {"none", "mounting", "mounted", "unmounting"}]
    BY <1>40, ThreadsAre, SessionsAre
    DEF UnmountUnlock, Goto, u, kext, device, locks, mp, thread,
        IInv, Typed
  <2>9. ses' \in [Threads -> Sessions \cup {NULL}]
    BY <1>40, ThreadsAre, SessionsAre
    DEF UnmountUnlock, Goto, u, kext, device, locks, mp, thread,
        IInv, Typed, Sharing, InSession, Last
  <2> QED BY <2>1, <2>2, <2>3, <2>4, <2>5, <2>6, <2>7, <2>8, <2>9 DEF Typed
<1>41. CASE Dounmount
  <2>1. sess' \in [Sessions -> Data]
    BY <1>41 DEF Dounmount, IInv, Typed
  <2>2. available' \in BOOLEAN
    BY <1>41, Zenon
    DEF Dounmount, Goto, u, kext, device, locks, mp, thread,
        IInv, Typed
  <2>3. installed' \in {"yes", "no_devices", "no"}
    BY <1>41
    DEF Dounmount, Goto, u, kext, device, locks, mp, thread,
        IInv, Typed
  <2>4. usecount' \in 0..1
    BY <1>41, ThreadsAre
    DEF Dounmount, Goto, u, kext, device, locks, mp, thread,
        IInv, Typed, Exclusive, Holds, Last
  <2>5. data' \in Sessions \cup {NULL} /\ destroyed' \subseteq Sessions
    BY <1>41, ThreadsAre, SessionsAre
    DEF Dounmount, Goto, u, kext, device, locks, mp, thread,
        IInv, Typed, Sharing, InSession, Last, Volumes
  <2>6. /\ global' \in Threads \cup {NoOne} /\ local' \in Threads \cup {NoOne}
        /\ big' \in [Sessions -> Threads \cup {NoOne}]
    BY <1>41, ThreadsAre
    DEF Dounmount, Goto, u, kext, device, locks, mp, thread,
        IInv, Typed
  <2>7. fds' \in [Sessions -> SUBSET Processes]
    BY <1>41, ThreadsAre, SessionsAre
    DEF Dounmount, Goto, u, kext, device, locks, mp, thread,
        IInv, Typed
  <2>8. volume' \in [Sessions -> {"none", "mounting", "mounted", "unmounting"}]
    BY <1>41, ThreadsAre, SessionsAre
    DEF Dounmount, Goto, u, kext, device, locks, mp, thread,
        IInv, Typed
  <2>9. ses' \in [Threads -> Sessions \cup {NULL}]
    BY <1>41, ThreadsAre, SessionsAre
    DEF Dounmount, Goto, u, kext, device, locks, mp, thread,
        IInv, Typed, Sharing, InSession, Last
  <2> QED BY <2>1, <2>2, <2>3, <2>4, <2>5, <2>6, <2>7, <2>8, <2>9 DEF Typed
<1> QED BY <1>1, <1>2, <1>3, <1>4, <1>5, <1>6, <1>7, <1>8, <1>9, <1>10, <1>11,
     <1>12, <1>13, <1>14, <1>15, <1>16, <1>17, <1>18, <1>19, <1>20, <1>21,
     <1>22, <1>23, <1>24, <1>25, <1>26, <1>27, <1>28, <1>29, <1>30, <1>31,
     <1>32, <1>33, <1>34, <1>35, <1>36, <1>37, <1>38, <1>39, <1>40, <1>41
  DEF Next, Opening, Closing, Mount, Unmounting

(* Processes, the unmounter and the unloader keep to their own places.     *)
LEMMA PlacedStep ==
  ASSUME IInv, Next
  PROVE  Placed'
<1>1. ASSUME NEW d \in Daemons, Open(d)
      PROVE  Placed'
  BY <1>1, ThreadsAre, SMTT(60)
  DEF Open, Goto, kext, device, locks, mp, thread, IInv, Typed, Placed,
      ProcessPCs, UnmounterPCs, UnloaderPCs, InSession, Last, Holds
<1>2. ASSUME NEW d \in Daemons, OpenGlobal(d)
      PROVE  Placed'
  BY <1>2, ThreadsAre, SMTT(60)
  DEF OpenGlobal, Goto, InUse, kext, device, locks, mp, thread, IInv, Typed,
      Placed, ProcessPCs, UnmounterPCs, UnloaderPCs, InSession, Last, Holds
<1>3. ASSUME NEW d \in Daemons, OpenStopped(d)
      PROVE  Placed'
  BY <1>3, ThreadsAre, SMTT(60)
  DEF OpenStopped, Goto, kext, device, locks, mp, thread, IInv, Typed,
      Placed, ProcessPCs, UnmounterPCs, UnloaderPCs, InSession, Last, Holds
<1>4. ASSUME NEW d \in Daemons, OpenLocal(d)
      PROVE  Placed'
  BY <1>4, ThreadsAre, SMTT(60)
  DEF OpenLocal, Goto, kext, device, locks, mp, thread, IInv, Typed, Placed,
      ProcessPCs, UnmounterPCs, UnloaderPCs, InSession, Last, Holds
<1>5. ASSUME NEW d \in Daemons, OpenAlloc(d)
      PROVE  Placed'
  BY <1>5, ThreadsAre, SMTT(60)
  DEF OpenAlloc, Goto, NewSession, NoData, kext, device, locks, mp, thread,
      IInv, Typed, Placed, ProcessPCs, UnmounterPCs, UnloaderPCs, InSession,
      Last, Holds
<1>6. ASSUME NEW d \in Daemons, OpenBusy(d)
      PROVE  Placed'
  BY <1>6, ThreadsAre, SMTT(60)
  DEF OpenBusy, Goto, kext, device, locks, mp, thread, IInv, Typed, Placed,
      ProcessPCs, UnmounterPCs, UnloaderPCs, InSession, Last, Holds
<1>7. ASSUME NEW d \in Daemons, Read(d)
      PROVE  Placed'
  BY <1>7, ThreadsAre, SMTT(60)
  DEF Read, Set, kext, device, locks, mp, thread, IInv, Typed, Placed,
      ProcessPCs, UnmounterPCs, UnloaderPCs, InSession, Last, Holds
<1>8. ASSUME NEW d \in Daemons, Reply(d)
      PROVE  Placed'
  BY <1>8, ThreadsAre, SMTT(60)
  DEF Reply, Set, kext, device, locks, mp, thread, IInv, Typed, Placed,
      ProcessPCs, UnmounterPCs, UnloaderPCs, InSession, Last, Holds
<1>9. ASSUME NEW d \in Daemons, NEW h \in Helpers, Fork(d, h)
      PROVE  Placed'
  BY <1>9, ThreadsAre, SMTT(60)
  DEF Fork, Goto, Set, kext, device, locks, mp, thread, IInv, Typed, Placed,
      ProcessPCs, UnmounterPCs, UnloaderPCs, InSession, Last, Holds
<1>10. ASSUME NEW p \in Processes, Exit(p)
       PROVE  Placed'
  BY <1>10, ThreadsAre, SMTT(60)
  DEF Exit, kext, device, locks, mp, thread, IInv, Typed, Placed, ProcessPCs,
      UnmounterPCs, UnloaderPCs, InSession, Last, Holds
<1>11. ASSUME NEW p \in Processes, Close(p)
       PROVE  Placed'
  BY <1>11, ThreadsAre, SMTT(60)
  DEF Close, Goto, SetDead, Set, kext, device, locks, mp, thread, IInv,
      Typed, Placed, ProcessPCs, UnmounterPCs, UnloaderPCs, InSession, Last,
      Holds
<1>12. ASSUME NEW p \in Processes, CloseLocal(p)
       PROVE  Placed'
  BY <1>12, ThreadsAre, SMTT(60)
  DEF CloseLocal, Goto, LeftForUnmount, Cut, kext, device, locks, mp, thread,
      IInv, Typed, Placed, ProcessPCs, UnmounterPCs, UnloaderPCs, InSession,
      Last, Holds
<1>13. ASSUME NEW p \in Processes, CloseUse(p)
       PROVE  Placed'
  BY <1>13, ThreadsAre, SMTT(60)
  DEF CloseUse, Goto, kext, device, locks, mp, thread, IInv, Typed, Placed,
      ProcessPCs, UnmounterPCs, UnloaderPCs, InSession, Last, Holds
<1>14. ASSUME NEW p \in Processes, SetDaemonDead(p)
       PROVE  Placed'
  BY <1>14, ThreadsAre, SMTT(60)
  DEF SetDaemonDead, Goto, SetDead, Set, kext, device, locks, mp, thread,
      IInv, Typed, Placed, ProcessPCs, UnmounterPCs, UnloaderPCs, InSession,
      Last, Holds
<1>15. ASSUME NEW h \in Helpers, MountLocal(h)
       PROVE  Placed'
  BY <1>15, ThreadsAre, SMTT(60)
  DEF MountLocal, Goto, kext, device, locks, mp, thread, IInv, Typed, Placed,
      ProcessPCs, UnmounterPCs, UnloaderPCs, InSession, Last, Holds
<1>16. ASSUME NEW h \in Helpers, MountBig(h)
       PROVE  Placed'
  BY <1>16, ThreadsAre, SMTT(60)
  DEF MountBig, Goto, BigFree, TakeBig, Set, kext, device, locks, mp, thread,
      IInv, Typed, Placed, ProcessPCs, UnmounterPCs, UnloaderPCs, InSession,
      Last, Holds
<1>17. ASSUME NEW h \in Helpers, SendInit(h)
       PROVE  Placed'
  BY <1>17, ThreadsAre, SMTT(60)
  DEF SendInit, Goto, Send, Set, kext, device, locks, mp, thread, IInv,
      Typed, Placed, ProcessPCs, UnmounterPCs, UnloaderPCs, InSession, Last,
      Holds
<1>18. ASSUME NEW h \in Helpers, InitAnswered(h)
       PROVE  Placed'
  BY <1>18, ThreadsAre, SMTT(60)
  DEF InitAnswered, Goto, kext, device, locks, mp, thread, IInv, Typed,
      Placed, ProcessPCs, UnmounterPCs, UnloaderPCs, InSession, Last, Holds
<1>19. ASSUME NEW h \in Helpers, InitFails(h)
       PROVE  Placed'
  BY <1>19, ThreadsAre, SMTT(60)
  DEF InitFails, Goto, Ends, Pending, Set, kext, device, locks, mp, thread,
      IInv, Typed, Placed, ProcessPCs, UnmounterPCs, UnloaderPCs, InSession,
      Last, Holds
<1>20. ASSUME NEW h \in Helpers, Statfs(h)
       PROVE  Placed'
  BY <1>20, ThreadsAre, SMTT(60)
  DEF Statfs, Goto, Send, Set, kext, device, locks, mp, thread, IInv, Typed,
      Placed, ProcessPCs, UnmounterPCs, UnloaderPCs, InSession, Last, Holds
<1>21. ASSUME NEW h \in Helpers, StatfsEnds(h)
       PROVE  Placed'
  BY <1>21, ThreadsAre, SMTT(60)
  DEF StatfsEnds, Goto, Ends, Pending, Set, kext, device, locks, mp, thread,
      IInv, Typed, Placed, ProcessPCs, UnmounterPCs, UnloaderPCs, InSession,
      Last, Holds
<1>22. ASSUME NEW h \in Helpers, Root(h)
       PROVE  Placed'
  BY <1>22, ThreadsAre, SMTT(60)
  DEF Root, Goto, kext, device, locks, mp, thread, IInv, Typed, Placed,
      ProcessPCs, UnmounterPCs, UnloaderPCs, InSession, Last, Holds
<1>23. ASSUME NEW h \in Helpers, Unwind(h)
       PROVE  Placed'
  BY <1>23, ThreadsAre, SMTT(60)
  DEF Unwind, Goto, Uncount, Set, DropBig, kext, device, locks, mp, thread,
      IInv, Typed, Placed, ProcessPCs, UnmounterPCs, UnloaderPCs, InSession,
      Last, Holds
<1>24. ASSUME NEW h \in Helpers, Finish(h)
       PROVE  Placed'
  BY <1>24, ThreadsAre, SMTT(60)
  DEF Finish, Goto, DropBig, kext, device, locks, mp, thread, IInv, Typed,
      Placed, ProcessPCs, UnmounterPCs, UnloaderPCs, InSession, Last, Holds
<1>25. ASSUME NEW h \in Helpers, Signal(h)
       PROVE  Placed'
  BY <1>25, ThreadsAre, SMTT(60)
  DEF Signal, Goto, Pending, Set, kext, device, locks, mp, thread, IInv,
      Typed, Placed, ProcessPCs, UnmounterPCs, UnloaderPCs, InSession, Last,
      Holds
<1>26. CASE Unmount
  BY <1>26, ThreadsAre, SMTT(60)
  DEF Unmount, Goto, u, kext, device, locks, mp, thread, IInv, Typed, Placed,
      ProcessPCs, UnmounterPCs, UnloaderPCs, InSession, Last, Holds
<1>27. CASE UnmountBegins
  BY <1>27, ThreadsAre, SMTT(60)
  DEF UnmountBegins, Goto, u, BigFree, SetDead, Set, kext, device, locks, mp,
      thread, IInv, Typed, Placed, ProcessPCs, UnmounterPCs, UnloaderPCs,
      InSession, Last, Holds
<1>28. CASE UnmountBusy
  BY <1>28, ThreadsAre, SMTT(60)
  DEF UnmountBusy, Goto, u, BigFree, kext, device, locks, mp, thread, IInv,
      Typed, Placed, ProcessPCs, UnmounterPCs, UnloaderPCs, InSession, Last,
      Holds
<1>29. CASE UnmountFlushed
  BY <1>29, ThreadsAre, SMTT(60)
  DEF UnmountFlushed, Goto, u, BigFree, TakeBig, kext, device, locks, mp,
      thread, IInv, Typed, Placed, ProcessPCs, UnmounterPCs, UnloaderPCs,
      InSession, Last, Holds
<1>30. CASE SendDestroy
  BY <1>30, ThreadsAre, SMTT(60)
  DEF SendDestroy, Goto, u, Send, Set, kext, device, locks, mp, thread, IInv,
      Typed, Placed, ProcessPCs, UnmounterPCs, UnloaderPCs, InSession, Last,
      Holds
<1>31. CASE DestroyEnds
  BY <1>31, ThreadsAre, SMTT(60)
  DEF DestroyEnds, Goto, u, kext, device, locks, mp, thread, IInv, Typed,
      Placed, ProcessPCs, UnmounterPCs, UnloaderPCs, InSession, Last, Holds
<1>32. CASE Release
  BY <1>32, ThreadsAre, SMTT(60)
  DEF Release, Goto, u, DropBig, kext, device, locks, mp, thread, IInv,
      Typed, Placed, ProcessPCs, UnmounterPCs, UnloaderPCs, InSession, Last,
      Holds
<1>33. CASE Retake
  BY <1>33, ThreadsAre, SMTT(60)
  DEF Retake, Goto, u, BigFree, TakeBig, kext, device, locks, mp, thread,
      IInv, Typed, Placed, ProcessPCs, UnmounterPCs, UnloaderPCs, InSession,
      Last, Holds
<1>34. CASE Unmounted
  BY <1>34, ThreadsAre, SMTT(60)
  DEF Unmounted, Goto, u, Set, Uncount, DropBig, LeftForClose, kext, device,
      locks, mp, thread, IInv, Typed, Placed, ProcessPCs, UnmounterPCs,
      UnloaderPCs, InSession, Last, Holds
<1>35. CASE Kill
  BY <1>35, ThreadsAre, SMTT(60)
  DEF Kill, Cut, kext, device, locks, mp, thread, IInv, Typed, Placed,
      ProcessPCs, UnmounterPCs, UnloaderPCs, InSession, Last, Holds
<1>36. CASE Stop
  BY <1>36, ThreadsAre, SMTT(60)
  DEF Stop, Goto, kext, device, locks, mp, thread, IInv, Typed, Placed,
      ProcessPCs, UnmounterPCs, UnloaderPCs, InSession, Last, Holds
<1>37. CASE StopDevices
  BY <1>37, ThreadsAre, SMTT(60)
  DEF StopDevices, Goto, DeviceInUse, InUse, kext, device, locks, mp, thread,
      IInv, Typed, Placed, ProcessPCs, UnmounterPCs, UnloaderPCs, InSession,
      Last, Holds
<1>38. CASE StopVfs
  BY <1>38, ThreadsAre, SMTT(60)
  DEF StopVfs, Goto, Mounting, kext, device, locks, mp, thread, IInv, Typed,
      Placed, ProcessPCs, UnmounterPCs, UnloaderPCs, InSession, Last, Holds
<1>39. CASE Start
  BY <1>39, ThreadsAre, SMTT(60)
  DEF Start, kext, device, locks, mp, thread, IInv, Typed, Placed,
      ProcessPCs, UnmounterPCs, UnloaderPCs, InSession, Last, Holds
<1>40. CASE UnmountUnlock
  BY <1>40, ThreadsAre, SMTT(60)
  DEF UnmountUnlock, Goto, u, kext, device, locks, mp, thread,
      IInv, Typed, Placed, ProcessPCs, UnmounterPCs, UnloaderPCs, InSession,
      Last, Holds
<1>41. CASE Dounmount
  BY <1>41, ThreadsAre, SMTT(60)
  DEF Dounmount, Goto, u, kext, device, locks, mp, thread,
      IInv, Typed, Placed, ProcessPCs, UnmounterPCs, UnloaderPCs, InSession,
      Last, Holds
<1> QED BY <1>1, <1>2, <1>3, <1>4, <1>5, <1>6, <1>7, <1>8, <1>9, <1>10, <1>11,
     <1>12, <1>13, <1>14, <1>15, <1>16, <1>17, <1>18, <1>19, <1>20, <1>21,
     <1>22, <1>23, <1>24, <1>25, <1>26, <1>27, <1>28, <1>29, <1>30, <1>31,
     <1>32, <1>33, <1>34, <1>35, <1>36, <1>37, <1>38, <1>39, <1>40, <1>41
  DEF Next, Opening, Closing, Mount, Unmounting

(* Forks, exits and the last close keep fds and the places in step.        *)
LEMMA SharingStep ==
  ASSUME IInv, Next
  PROVE  Sharing'
<1>1. ASSUME NEW d \in Daemons, Open(d)
      PROVE  Sharing'
  BY <1>1, ThreadsAre, SessionsAre, SMTT(60)
  DEF Open, Goto, kext, device, locks, mp, thread, IInv, Typed, Placed,
      ProcessPCs, UnmounterPCs, UnloaderPCs, InSession, Last, Holds, Sharing,
      Exclusive
<1>2. ASSUME NEW d \in Daemons, OpenGlobal(d)
      PROVE  Sharing'
  BY <1>2, ThreadsAre, SessionsAre, SMTT(60)
  DEF OpenGlobal, Goto, InUse, kext, device, locks, mp, thread, IInv, Typed,
      Placed, ProcessPCs, UnmounterPCs, UnloaderPCs, InSession, Last, Holds,
      Sharing, Exclusive
<1>3. ASSUME NEW d \in Daemons, OpenStopped(d)
      PROVE  Sharing'
  BY <1>3, ThreadsAre, SessionsAre, SMTT(60)
  DEF OpenStopped, Goto, kext, device, locks, mp, thread, IInv, Typed,
      Placed, ProcessPCs, UnmounterPCs, UnloaderPCs, InSession, Last, Holds,
      Sharing, Exclusive
<1>4. ASSUME NEW d \in Daemons, OpenLocal(d)
      PROVE  Sharing'
  BY <1>4, ThreadsAre, SessionsAre, SMTT(60)
  DEF OpenLocal, Goto, kext, device, locks, mp, thread, IInv, Typed, Placed,
      ProcessPCs, UnmounterPCs, UnloaderPCs, InSession, Last, Holds, Sharing,
      Exclusive
<1>5. ASSUME NEW d \in Daemons, OpenAlloc(d)
      PROVE  Sharing'
  BY <1>5, ThreadsAre, SessionsAre, SMTT(60)
  DEF OpenAlloc, Goto, NewSession, NoData, kext, device, locks, mp, thread,
      IInv, Typed, Placed, ProcessPCs, UnmounterPCs, UnloaderPCs, InSession,
      Last, Holds, Sharing, Exclusive
<1>6. ASSUME NEW d \in Daemons, OpenBusy(d)
      PROVE  Sharing'
  BY <1>6, ThreadsAre, SessionsAre, SMTT(60)
  DEF OpenBusy, Goto, kext, device, locks, mp, thread, IInv, Typed, Placed,
      ProcessPCs, UnmounterPCs, UnloaderPCs, InSession, Last, Holds, Sharing,
      Exclusive
<1>7. ASSUME NEW d \in Daemons, Read(d)
      PROVE  Sharing'
  BY <1>7, ThreadsAre, SessionsAre, SMTT(60)
  DEF Read, Set, kext, device, locks, mp, thread, IInv, Typed, Placed,
      ProcessPCs, UnmounterPCs, UnloaderPCs, InSession, Last, Holds, Sharing,
      Exclusive
<1>8. ASSUME NEW d \in Daemons, Reply(d)
      PROVE  Sharing'
  BY <1>8, ThreadsAre, SessionsAre, SMTT(60)
  DEF Reply, Set, kext, device, locks, mp, thread, IInv, Typed, Placed,
      ProcessPCs, UnmounterPCs, UnloaderPCs, InSession, Last, Holds, Sharing,
      Exclusive
<1>9. ASSUME NEW d \in Daemons, NEW h \in Helpers, Fork(d, h)
      PROVE  Sharing'
  BY <1>9, ThreadsAre, SessionsAre, SMTT(60)
  DEF Fork, Goto, Set, kext, device, locks, mp, thread, IInv, Typed, Placed,
      ProcessPCs, UnmounterPCs, UnloaderPCs, InSession, Last, Holds, Sharing,
      Exclusive
<1>10. ASSUME NEW p \in Processes, Exit(p)
       PROVE  Sharing'
  BY <1>10, ThreadsAre, SessionsAre, SMTT(60)
  DEF Exit, kext, device, locks, mp, thread, IInv, Typed, Placed, ProcessPCs,
      UnmounterPCs, UnloaderPCs, InSession, Last, Holds, Sharing, Exclusive
<1>11. ASSUME NEW p \in Processes, Close(p)
       PROVE  Sharing'
  BY <1>11, ThreadsAre, SessionsAre, SMTT(60)
  DEF Close, Goto, SetDead, Set, kext, device, locks, mp, thread, IInv,
      Typed, Placed, ProcessPCs, UnmounterPCs, UnloaderPCs, InSession, Last,
      Holds, Sharing, Exclusive
<1>12. ASSUME NEW p \in Processes, CloseLocal(p)
       PROVE  Sharing'
  BY <1>12, ThreadsAre, SessionsAre, SMTT(60)
  DEF CloseLocal, Goto, LeftForUnmount, Cut, kext, device, locks, mp, thread,
      IInv, Typed, Placed, ProcessPCs, UnmounterPCs, UnloaderPCs, InSession,
      Last, Holds, Sharing, Exclusive
<1>13. ASSUME NEW p \in Processes, CloseUse(p)
       PROVE  Sharing'
  BY <1>13, ThreadsAre, SessionsAre, SMTT(60)
  DEF CloseUse, Goto, kext, device, locks, mp, thread, IInv, Typed, Placed,
      ProcessPCs, UnmounterPCs, UnloaderPCs, InSession, Last, Holds, Sharing,
      Exclusive
<1>14. ASSUME NEW p \in Processes, SetDaemonDead(p)
       PROVE  Sharing'
  BY <1>14, ThreadsAre, SessionsAre, SMTT(60)
  DEF SetDaemonDead, Goto, SetDead, Set, kext, device, locks, mp, thread,
      IInv, Typed, Placed, ProcessPCs, UnmounterPCs, UnloaderPCs, InSession,
      Last, Holds, Sharing, Exclusive
<1>15. ASSUME NEW h \in Helpers, MountLocal(h)
       PROVE  Sharing'
  BY <1>15, ThreadsAre, SessionsAre, SMTT(60)
  DEF MountLocal, Goto, kext, device, locks, mp, thread, IInv, Typed, Placed,
      ProcessPCs, UnmounterPCs, UnloaderPCs, InSession, Last, Holds, Sharing,
      Exclusive
<1>16. ASSUME NEW h \in Helpers, MountBig(h)
       PROVE  Sharing'
  BY <1>16, ThreadsAre, SessionsAre, SMTT(60)
  DEF MountBig, Goto, BigFree, TakeBig, Set, kext, device, locks, mp, thread,
      IInv, Typed, Placed, ProcessPCs, UnmounterPCs, UnloaderPCs, InSession,
      Last, Holds, Sharing, Exclusive
<1>17. ASSUME NEW h \in Helpers, SendInit(h)
       PROVE  Sharing'
  BY <1>17, ThreadsAre, SessionsAre, SMTT(60)
  DEF SendInit, Goto, Send, Set, kext, device, locks, mp, thread, IInv,
      Typed, Placed, ProcessPCs, UnmounterPCs, UnloaderPCs, InSession, Last,
      Holds, Sharing, Exclusive
<1>18. ASSUME NEW h \in Helpers, InitAnswered(h)
       PROVE  Sharing'
  BY <1>18, ThreadsAre, SessionsAre, SMTT(60)
  DEF InitAnswered, Goto, kext, device, locks, mp, thread, IInv, Typed,
      Placed, ProcessPCs, UnmounterPCs, UnloaderPCs, InSession, Last, Holds,
      Sharing, Exclusive
<1>19. ASSUME NEW h \in Helpers, InitFails(h)
       PROVE  Sharing'
  BY <1>19, ThreadsAre, SessionsAre, SMTT(60)
  DEF InitFails, Goto, Ends, Pending, Set, kext, device, locks, mp, thread,
      IInv, Typed, Placed, ProcessPCs, UnmounterPCs, UnloaderPCs, InSession,
      Last, Holds, Sharing, Exclusive
<1>20. ASSUME NEW h \in Helpers, Statfs(h)
       PROVE  Sharing'
  BY <1>20, ThreadsAre, SessionsAre, SMTT(60)
  DEF Statfs, Goto, Send, Set, kext, device, locks, mp, thread, IInv, Typed,
      Placed, ProcessPCs, UnmounterPCs, UnloaderPCs, InSession, Last, Holds,
      Sharing, Exclusive
<1>21. ASSUME NEW h \in Helpers, StatfsEnds(h)
       PROVE  Sharing'
  BY <1>21, ThreadsAre, SessionsAre, SMTT(60)
  DEF StatfsEnds, Goto, Ends, Pending, Set, kext, device, locks, mp, thread,
      IInv, Typed, Placed, ProcessPCs, UnmounterPCs, UnloaderPCs, InSession,
      Last, Holds, Sharing, Exclusive
<1>22. ASSUME NEW h \in Helpers, Root(h)
       PROVE  Sharing'
  BY <1>22, ThreadsAre, SessionsAre, SMTT(60)
  DEF Root, Goto, kext, device, locks, mp, thread, IInv, Typed, Placed,
      ProcessPCs, UnmounterPCs, UnloaderPCs, InSession, Last, Holds, Sharing,
      Exclusive
<1>23. ASSUME NEW h \in Helpers, Unwind(h)
       PROVE  Sharing'
  BY <1>23, ThreadsAre, SessionsAre, SMTT(60)
  DEF Unwind, Goto, Uncount, Set, DropBig, kext, device, locks, mp, thread,
      IInv, Typed, Placed, ProcessPCs, UnmounterPCs, UnloaderPCs, InSession,
      Last, Holds, Sharing, Exclusive
<1>24. ASSUME NEW h \in Helpers, Finish(h)
       PROVE  Sharing'
  BY <1>24, ThreadsAre, SessionsAre, SMTT(60)
  DEF Finish, Goto, DropBig, kext, device, locks, mp, thread, IInv, Typed,
      Placed, ProcessPCs, UnmounterPCs, UnloaderPCs, InSession, Last, Holds,
      Sharing, Exclusive
<1>25. ASSUME NEW h \in Helpers, Signal(h)
       PROVE  Sharing'
  BY <1>25, ThreadsAre, SessionsAre, SMTT(60)
  DEF Signal, Goto, Pending, Set, kext, device, locks, mp, thread, IInv,
      Typed, Placed, ProcessPCs, UnmounterPCs, UnloaderPCs, InSession, Last,
      Holds, Sharing, Exclusive
<1>26. CASE Unmount
  BY <1>26, ThreadsAre, SessionsAre, SMTT(60)
  DEF Unmount, Goto, u, kext, device, locks, mp, thread, IInv, Typed, Placed,
      ProcessPCs, UnmounterPCs, UnloaderPCs, InSession, Last, Holds, Sharing,
      Exclusive
<1>27. CASE UnmountBegins
  BY <1>27, ThreadsAre, SessionsAre, SMTT(60)
  DEF UnmountBegins, Goto, u, BigFree, SetDead, Set, kext, device, locks, mp,
      thread, IInv, Typed, Placed, ProcessPCs, UnmounterPCs, UnloaderPCs,
      InSession, Last, Holds, Sharing, Exclusive
<1>28. CASE UnmountBusy
  BY <1>28, ThreadsAre, SessionsAre, SMTT(60)
  DEF UnmountBusy, Goto, u, BigFree, kext, device, locks, mp, thread, IInv,
      Typed, Placed, ProcessPCs, UnmounterPCs, UnloaderPCs, InSession, Last,
      Holds, Sharing, Exclusive
<1>29. CASE UnmountFlushed
  BY <1>29, ThreadsAre, SessionsAre, SMTT(60)
  DEF UnmountFlushed, Goto, u, BigFree, TakeBig, kext, device, locks, mp,
      thread, IInv, Typed, Placed, ProcessPCs, UnmounterPCs, UnloaderPCs,
      InSession, Last, Holds, Sharing, Exclusive
<1>30. CASE SendDestroy
  BY <1>30, ThreadsAre, SessionsAre, SMTT(60)
  DEF SendDestroy, Goto, u, Send, Set, kext, device, locks, mp, thread, IInv,
      Typed, Placed, ProcessPCs, UnmounterPCs, UnloaderPCs, InSession, Last,
      Holds, Sharing, Exclusive
<1>31. CASE DestroyEnds
  BY <1>31, ThreadsAre, SessionsAre, SMTT(60)
  DEF DestroyEnds, Goto, u, kext, device, locks, mp, thread, IInv, Typed,
      Placed, ProcessPCs, UnmounterPCs, UnloaderPCs, InSession, Last, Holds,
      Sharing, Exclusive
<1>32. CASE Release
  BY <1>32, ThreadsAre, SessionsAre, SMTT(60)
  DEF Release, Goto, u, DropBig, kext, device, locks, mp, thread, IInv,
      Typed, Placed, ProcessPCs, UnmounterPCs, UnloaderPCs, InSession, Last,
      Holds, Sharing, Exclusive
<1>33. CASE Retake
  BY <1>33, ThreadsAre, SessionsAre, SMTT(60)
  DEF Retake, Goto, u, BigFree, TakeBig, kext, device, locks, mp, thread,
      IInv, Typed, Placed, ProcessPCs, UnmounterPCs, UnloaderPCs, InSession,
      Last, Holds, Sharing, Exclusive
<1>34. CASE Unmounted
  BY <1>34, ThreadsAre, SessionsAre, SMTT(60)
  DEF Unmounted, Goto, u, Set, Uncount, DropBig, LeftForClose, kext, device,
      locks, mp, thread, IInv, Typed, Placed, ProcessPCs, UnmounterPCs,
      UnloaderPCs, InSession, Last, Holds, Sharing, Exclusive
<1>35. CASE Kill
  BY <1>35, ThreadsAre, SessionsAre, SMTT(60)
  DEF Kill, Cut, kext, device, locks, mp, thread, IInv, Typed, Placed,
      ProcessPCs, UnmounterPCs, UnloaderPCs, InSession, Last, Holds, Sharing,
      Exclusive
<1>36. CASE Stop
  BY <1>36, ThreadsAre, SessionsAre, SMTT(60)
  DEF Stop, Goto, kext, device, locks, mp, thread, IInv, Typed, Placed,
      ProcessPCs, UnmounterPCs, UnloaderPCs, InSession, Last, Holds, Sharing,
      Exclusive
<1>37. CASE StopDevices
  BY <1>37, ThreadsAre, SessionsAre, SMTT(60)
  DEF StopDevices, Goto, DeviceInUse, InUse, kext, device, locks, mp, thread,
      IInv, Typed, Placed, ProcessPCs, UnmounterPCs, UnloaderPCs, InSession,
      Last, Holds, Sharing, Exclusive
<1>38. CASE StopVfs
  BY <1>38, ThreadsAre, SessionsAre, SMTT(60)
  DEF StopVfs, Goto, Mounting, kext, device, locks, mp, thread, IInv, Typed,
      Placed, ProcessPCs, UnmounterPCs, UnloaderPCs, InSession, Last, Holds,
      Sharing, Exclusive
<1>39. CASE Start
  BY <1>39, ThreadsAre, SessionsAre, SMTT(60)
  DEF Start, kext, device, locks, mp, thread, IInv, Typed, Placed,
      ProcessPCs, UnmounterPCs, UnloaderPCs, InSession, Last, Holds, Sharing,
      Exclusive
<1>40. CASE UnmountUnlock
  BY <1>40, ThreadsAre, SessionsAre, SMTT(60)
  DEF UnmountUnlock, Goto, u, kext, device, locks, mp, thread,
      IInv, Typed, Placed, ProcessPCs, UnmounterPCs, UnloaderPCs, InSession,
      Last, Holds, Sharing, Exclusive
<1>41. CASE Dounmount
  BY <1>41, ThreadsAre, SessionsAre, SMTT(60)
  DEF Dounmount, Goto, u, kext, device, locks, mp, thread,
      IInv, Typed, Placed, ProcessPCs, UnmounterPCs, UnloaderPCs, InSession,
      Last, Holds, Sharing, Exclusive
<1> QED BY <1>1, <1>2, <1>3, <1>4, <1>5, <1>6, <1>7, <1>8, <1>9, <1>10, <1>11,
     <1>12, <1>13, <1>14, <1>15, <1>16, <1>17, <1>18, <1>19, <1>20, <1>21,
     <1>22, <1>23, <1>24, <1>25, <1>26, <1>27, <1>28, <1>29, <1>30, <1>31,
     <1>32, <1>33, <1>34, <1>35, <1>36, <1>37, <1>38, <1>39, <1>40, <1>41
  DEF Next, Opening, Closing, Mount, Unmounting

(* A second open finds usecount taken, from the first open to the end of the*)
(* last close.                                                             *)
LEMMA ExclusiveStep ==
  ASSUME IInv, Next
  PROVE  Exclusive'
<1>1. ASSUME NEW d \in Daemons, Open(d)
      PROVE  Exclusive'
  BY <1>1, ThreadsAre, SessionsAre, SMTT(60)
  DEF Open, Goto, kext, device, locks, mp, thread, IInv, Typed, Placed,
      ProcessPCs, UnmounterPCs, UnloaderPCs, InSession, Last, Holds, Sharing,
      Exclusive
<1>2. ASSUME NEW d \in Daemons, OpenGlobal(d)
      PROVE  Exclusive'
  BY <1>2, ThreadsAre, SessionsAre, SMTT(60)
  DEF OpenGlobal, Goto, InUse, kext, device, locks, mp, thread, IInv, Typed,
      Placed, ProcessPCs, UnmounterPCs, UnloaderPCs, InSession, Last, Holds,
      Sharing, Exclusive
<1>3. ASSUME NEW d \in Daemons, OpenStopped(d)
      PROVE  Exclusive'
  BY <1>3, ThreadsAre, SessionsAre, SMTT(60)
  DEF OpenStopped, Goto, kext, device, locks, mp, thread, IInv, Typed,
      Placed, ProcessPCs, UnmounterPCs, UnloaderPCs, InSession, Last, Holds,
      Sharing, Exclusive
<1>4. ASSUME NEW d \in Daemons, OpenLocal(d)
      PROVE  Exclusive'
  BY <1>4, ThreadsAre, SessionsAre, SMTT(60)
  DEF OpenLocal, Goto, kext, device, locks, mp, thread, IInv, Typed, Placed,
      ProcessPCs, UnmounterPCs, UnloaderPCs, InSession, Last, Holds, Sharing,
      Exclusive
<1>5. ASSUME NEW d \in Daemons, OpenAlloc(d)
      PROVE  Exclusive'
  <2>1. CASE data # NULL
    BY <1>5, <2>1, ThreadsAre, SessionsAre, SMTT(60)
    DEF OpenAlloc, Goto, device, IInv, Typed, Placed, ProcessPCs, InSession,
        Last, Holds, Exclusive
  <2>2. CASE data = NULL
    <3>1. PICK s \in Sessions :
            /\ fds' = [fds EXCEPT ![s] = {d}] /\ usecount' = usecount
            /\ pc[d] = "alloc" /\ pc' = [pc EXCEPT ![d] = "running"]
      BY <1>5, <2>2 DEF OpenAlloc, Goto
    <3>2. /\ pc[d] \in Holds /\ \A r \in Sessions : fds[r] = {}
          /\ \A p \in Processes : pc[p] \in Holds => p = d
          /\ usecount = 1
      BY <3>1, ThreadsAre DEF IInv, Exclusive, Holds
    <3>3. \A p \in Processes : pc'[p] \notin Holds
      BY <3>1, <3>2, ThreadsAre DEF IInv, Placed, Holds, Last
    <3>4. fds'[s] = {d} /\ \A r \in Sessions \ {s} : fds'[r] = {}
      BY <3>1, <3>2 DEF IInv, Typed
    <3> QED BY <3>1, <3>2, <3>3, <3>4 DEF Exclusive
  <2> QED BY <2>1, <2>2
<1>6. ASSUME NEW d \in Daemons, OpenBusy(d)
      PROVE  Exclusive'
  BY <1>6, ThreadsAre, SessionsAre, SMTT(60)
  DEF OpenBusy, Goto, kext, device, locks, mp, thread, IInv, Typed, Placed,
      ProcessPCs, UnmounterPCs, UnloaderPCs, InSession, Last, Holds, Sharing,
      Exclusive
<1>7. ASSUME NEW d \in Daemons, Read(d)
      PROVE  Exclusive'
  BY <1>7, ThreadsAre, SessionsAre, SMTT(60)
  DEF Read, Set, kext, device, locks, mp, thread, IInv, Typed, Placed,
      ProcessPCs, UnmounterPCs, UnloaderPCs, InSession, Last, Holds, Sharing,
      Exclusive
<1>8. ASSUME NEW d \in Daemons, Reply(d)
      PROVE  Exclusive'
  BY <1>8, ThreadsAre, SessionsAre, SMTT(60)
  DEF Reply, Set, kext, device, locks, mp, thread, IInv, Typed, Placed,
      ProcessPCs, UnmounterPCs, UnloaderPCs, InSession, Last, Holds, Sharing,
      Exclusive
<1>9. ASSUME NEW d \in Daemons, NEW h \in Helpers, Fork(d, h)
      PROVE  Exclusive'
  BY <1>9, ThreadsAre, SessionsAre, SMTT(60)
  DEF Fork, Goto, Set, kext, device, locks, mp, thread, IInv, Typed, Placed,
      ProcessPCs, UnmounterPCs, UnloaderPCs, InSession, Last, Holds, Sharing,
      Exclusive
<1>10. ASSUME NEW p \in Processes, Exit(p)
       PROVE  Exclusive'
  BY <1>10, ThreadsAre, SessionsAre, SMTT(60)
  DEF Exit, kext, device, locks, mp, thread, IInv, Typed, Placed, ProcessPCs,
      UnmounterPCs, UnloaderPCs, InSession, Last, Holds, Sharing, Exclusive
<1>11. ASSUME NEW p \in Processes, Close(p)
       PROVE  Exclusive'
  BY <1>11, ThreadsAre, SessionsAre, SMTT(60)
  DEF Close, Goto, SetDead, Set, kext, device, locks, mp, thread, IInv,
      Typed, Placed, ProcessPCs, UnmounterPCs, UnloaderPCs, InSession, Last,
      Holds, Sharing, Exclusive
<1>12. ASSUME NEW p \in Processes, CloseLocal(p)
       PROVE  Exclusive'
  BY <1>12, ThreadsAre, SessionsAre, SMTT(60)
  DEF CloseLocal, Goto, LeftForUnmount, Cut, kext, device, locks, mp, thread,
      IInv, Typed, Placed, ProcessPCs, UnmounterPCs, UnloaderPCs, InSession,
      Last, Holds, Sharing, Exclusive
<1>13. ASSUME NEW p \in Processes, CloseUse(p)
       PROVE  Exclusive'
  BY <1>13, ThreadsAre, SessionsAre, SMTT(60)
  DEF CloseUse, Goto, kext, device, locks, mp, thread, IInv, Typed, Placed,
      ProcessPCs, UnmounterPCs, UnloaderPCs, InSession, Last, Holds, Sharing,
      Exclusive
<1>14. ASSUME NEW p \in Processes, SetDaemonDead(p)
       PROVE  Exclusive'
  BY <1>14, ThreadsAre, SessionsAre, SMTT(60)
  DEF SetDaemonDead, Goto, SetDead, Set, kext, device, locks, mp, thread,
      IInv, Typed, Placed, ProcessPCs, UnmounterPCs, UnloaderPCs, InSession,
      Last, Holds, Sharing, Exclusive
<1>15. ASSUME NEW h \in Helpers, MountLocal(h)
       PROVE  Exclusive'
  BY <1>15, ThreadsAre, SessionsAre, SMTT(60)
  DEF MountLocal, Goto, kext, device, locks, mp, thread, IInv, Typed, Placed,
      ProcessPCs, UnmounterPCs, UnloaderPCs, InSession, Last, Holds, Sharing,
      Exclusive
<1>16. ASSUME NEW h \in Helpers, MountBig(h)
       PROVE  Exclusive'
  BY <1>16, ThreadsAre, SessionsAre, SMTT(60)
  DEF MountBig, Goto, BigFree, TakeBig, Set, kext, device, locks, mp, thread,
      IInv, Typed, Placed, ProcessPCs, UnmounterPCs, UnloaderPCs, InSession,
      Last, Holds, Sharing, Exclusive
<1>17. ASSUME NEW h \in Helpers, SendInit(h)
       PROVE  Exclusive'
  BY <1>17, ThreadsAre, SessionsAre, SMTT(60)
  DEF SendInit, Goto, Send, Set, kext, device, locks, mp, thread, IInv,
      Typed, Placed, ProcessPCs, UnmounterPCs, UnloaderPCs, InSession, Last,
      Holds, Sharing, Exclusive
<1>18. ASSUME NEW h \in Helpers, InitAnswered(h)
       PROVE  Exclusive'
  BY <1>18, ThreadsAre, SessionsAre, SMTT(60)
  DEF InitAnswered, Goto, kext, device, locks, mp, thread, IInv, Typed,
      Placed, ProcessPCs, UnmounterPCs, UnloaderPCs, InSession, Last, Holds,
      Sharing, Exclusive
<1>19. ASSUME NEW h \in Helpers, InitFails(h)
       PROVE  Exclusive'
  BY <1>19, ThreadsAre, SessionsAre, SMTT(60)
  DEF InitFails, Goto, Ends, Pending, Set, kext, device, locks, mp, thread,
      IInv, Typed, Placed, ProcessPCs, UnmounterPCs, UnloaderPCs, InSession,
      Last, Holds, Sharing, Exclusive
<1>20. ASSUME NEW h \in Helpers, Statfs(h)
       PROVE  Exclusive'
  BY <1>20, ThreadsAre, SessionsAre, SMTT(60)
  DEF Statfs, Goto, Send, Set, kext, device, locks, mp, thread, IInv, Typed,
      Placed, ProcessPCs, UnmounterPCs, UnloaderPCs, InSession, Last, Holds,
      Sharing, Exclusive
<1>21. ASSUME NEW h \in Helpers, StatfsEnds(h)
       PROVE  Exclusive'
  BY <1>21, ThreadsAre, SessionsAre, SMTT(60)
  DEF StatfsEnds, Goto, Ends, Pending, Set, kext, device, locks, mp, thread,
      IInv, Typed, Placed, ProcessPCs, UnmounterPCs, UnloaderPCs, InSession,
      Last, Holds, Sharing, Exclusive
<1>22. ASSUME NEW h \in Helpers, Root(h)
       PROVE  Exclusive'
  BY <1>22, ThreadsAre, SessionsAre, SMTT(60)
  DEF Root, Goto, kext, device, locks, mp, thread, IInv, Typed, Placed,
      ProcessPCs, UnmounterPCs, UnloaderPCs, InSession, Last, Holds, Sharing,
      Exclusive
<1>23. ASSUME NEW h \in Helpers, Unwind(h)
       PROVE  Exclusive'
  BY <1>23, ThreadsAre, SessionsAre, SMTT(60)
  DEF Unwind, Goto, Uncount, Set, DropBig, kext, device, locks, mp, thread,
      IInv, Typed, Placed, ProcessPCs, UnmounterPCs, UnloaderPCs, InSession,
      Last, Holds, Sharing, Exclusive
<1>24. ASSUME NEW h \in Helpers, Finish(h)
       PROVE  Exclusive'
  BY <1>24, ThreadsAre, SessionsAre, SMTT(60)
  DEF Finish, Goto, DropBig, kext, device, locks, mp, thread, IInv, Typed,
      Placed, ProcessPCs, UnmounterPCs, UnloaderPCs, InSession, Last, Holds,
      Sharing, Exclusive
<1>25. ASSUME NEW h \in Helpers, Signal(h)
       PROVE  Exclusive'
  BY <1>25, ThreadsAre, SessionsAre, SMTT(60)
  DEF Signal, Goto, Pending, Set, kext, device, locks, mp, thread, IInv,
      Typed, Placed, ProcessPCs, UnmounterPCs, UnloaderPCs, InSession, Last,
      Holds, Sharing, Exclusive
<1>26. CASE Unmount
  BY <1>26, ThreadsAre, SessionsAre, SMTT(60)
  DEF Unmount, Goto, u, kext, device, locks, mp, thread, IInv, Typed, Placed,
      ProcessPCs, UnmounterPCs, UnloaderPCs, InSession, Last, Holds, Sharing,
      Exclusive
<1>27. CASE UnmountBegins
  BY <1>27, ThreadsAre, SessionsAre, SMTT(60)
  DEF UnmountBegins, Goto, u, BigFree, SetDead, Set, kext, device, locks, mp,
      thread, IInv, Typed, Placed, ProcessPCs, UnmounterPCs, UnloaderPCs,
      InSession, Last, Holds, Sharing, Exclusive
<1>28. CASE UnmountBusy
  BY <1>28, ThreadsAre, SessionsAre, SMTT(60)
  DEF UnmountBusy, Goto, u, BigFree, kext, device, locks, mp, thread, IInv,
      Typed, Placed, ProcessPCs, UnmounterPCs, UnloaderPCs, InSession, Last,
      Holds, Sharing, Exclusive
<1>29. CASE UnmountFlushed
  BY <1>29, ThreadsAre, SessionsAre, SMTT(60)
  DEF UnmountFlushed, Goto, u, BigFree, TakeBig, kext, device, locks, mp,
      thread, IInv, Typed, Placed, ProcessPCs, UnmounterPCs, UnloaderPCs,
      InSession, Last, Holds, Sharing, Exclusive
<1>30. CASE SendDestroy
  BY <1>30, ThreadsAre, SessionsAre, SMTT(60)
  DEF SendDestroy, Goto, u, Send, Set, kext, device, locks, mp, thread, IInv,
      Typed, Placed, ProcessPCs, UnmounterPCs, UnloaderPCs, InSession, Last,
      Holds, Sharing, Exclusive
<1>31. CASE DestroyEnds
  BY <1>31, ThreadsAre, SessionsAre, SMTT(60)
  DEF DestroyEnds, Goto, u, kext, device, locks, mp, thread, IInv, Typed,
      Placed, ProcessPCs, UnmounterPCs, UnloaderPCs, InSession, Last, Holds,
      Sharing, Exclusive
<1>32. CASE Release
  BY <1>32, ThreadsAre, SessionsAre, SMTT(60)
  DEF Release, Goto, u, DropBig, kext, device, locks, mp, thread, IInv,
      Typed, Placed, ProcessPCs, UnmounterPCs, UnloaderPCs, InSession, Last,
      Holds, Sharing, Exclusive
<1>33. CASE Retake
  BY <1>33, ThreadsAre, SessionsAre, SMTT(60)
  DEF Retake, Goto, u, BigFree, TakeBig, kext, device, locks, mp, thread,
      IInv, Typed, Placed, ProcessPCs, UnmounterPCs, UnloaderPCs, InSession,
      Last, Holds, Sharing, Exclusive
<1>34. CASE Unmounted
  BY <1>34, ThreadsAre, SessionsAre, SMTT(60)
  DEF Unmounted, Goto, u, Set, Uncount, DropBig, LeftForClose, kext, device,
      locks, mp, thread, IInv, Typed, Placed, ProcessPCs, UnmounterPCs,
      UnloaderPCs, InSession, Last, Holds, Sharing, Exclusive
<1>35. CASE Kill
  BY <1>35, ThreadsAre, SessionsAre, SMTT(60)
  DEF Kill, Cut, kext, device, locks, mp, thread, IInv, Typed, Placed,
      ProcessPCs, UnmounterPCs, UnloaderPCs, InSession, Last, Holds, Sharing,
      Exclusive
<1>36. CASE Stop
  BY <1>36, ThreadsAre, SessionsAre, SMTT(60)
  DEF Stop, Goto, kext, device, locks, mp, thread, IInv, Typed, Placed,
      ProcessPCs, UnmounterPCs, UnloaderPCs, InSession, Last, Holds, Sharing,
      Exclusive
<1>37. CASE StopDevices
  BY <1>37, ThreadsAre, SessionsAre, SMTT(60)
  DEF StopDevices, Goto, DeviceInUse, InUse, kext, device, locks, mp, thread,
      IInv, Typed, Placed, ProcessPCs, UnmounterPCs, UnloaderPCs, InSession,
      Last, Holds, Sharing, Exclusive
<1>38. CASE StopVfs
  BY <1>38, ThreadsAre, SessionsAre, SMTT(60)
  DEF StopVfs, Goto, Mounting, kext, device, locks, mp, thread, IInv, Typed,
      Placed, ProcessPCs, UnmounterPCs, UnloaderPCs, InSession, Last, Holds,
      Sharing, Exclusive
<1>39. CASE Start
  BY <1>39, ThreadsAre, SessionsAre, SMTT(60)
  DEF Start, kext, device, locks, mp, thread, IInv, Typed, Placed,
      ProcessPCs, UnmounterPCs, UnloaderPCs, InSession, Last, Holds, Sharing,
      Exclusive
<1>40. CASE UnmountUnlock
  BY <1>40, ThreadsAre, SessionsAre, SMTT(60)
  DEF UnmountUnlock, Goto, u, kext, device, locks, mp, thread,
      IInv, Typed, Placed, ProcessPCs, UnmounterPCs, UnloaderPCs, InSession,
      Last, Holds, Sharing, Exclusive
<1>41. CASE Dounmount
  BY <1>41, ThreadsAre, SessionsAre, SMTT(60)
  DEF Dounmount, Goto, u, kext, device, locks, mp, thread,
      IInv, Typed, Placed, ProcessPCs, UnmounterPCs, UnloaderPCs, InSession,
      Last, Holds, Sharing, Exclusive
<1> QED BY <1>1, <1>2, <1>3, <1>4, <1>5, <1>6, <1>7, <1>8, <1>9, <1>10, <1>11,
     <1>12, <1>13, <1>14, <1>15, <1>16, <1>17, <1>18, <1>19, <1>20, <1>21,
     <1>22, <1>23, <1>24, <1>25, <1>26, <1>27, <1>28, <1>29, <1>30, <1>31,
     <1>32, <1>33, <1>34, <1>35, <1>36, <1>37, <1>38, <1>39, <1>40, <1>41
  DEF Next, Opening, Closing, Mount, Unmounting

(* A step that closes nothing.                                             *)
LEMMA OpenedKept ==
  ASSUME OpenedUntilClosed, Sharing, fds' = fds,
         \A s \in Sessions : /\ sess'[s].opened = sess[s].opened
                             /\ sess[s].dead => sess'[s].dead,
         \A p \in Processes : pc[p] \in Last \/ pc'[p] \in Last =>
                                pc'[p] = pc[p] /\ ses'[p] = ses[p]
  PROVE  OpenedUntilClosed'
<1>1. \A p \in Processes : pc[p] \in Last => ses[p] \in Sessions
  BY DEF Sharing
<1>2. \A p \in Processes : pc'[p] = "close_local" => pc[p] = "close_local"
  BY DEF Last
<1>3. \A p \in Processes : pc'[p] \in Last => sess'[ses'[p]].opened
  BY <1>1 DEF OpenedUntilClosed
<1>4. \A p \in Processes : pc'[p] = "close_local" => sess'[ses'[p]].dead
  BY <1>1, <1>2 DEF OpenedUntilClosed, Last
<1>5. \A s \in Sessions : sess'[s].opened =>
        fds'[s] # {} \/ \E p \in Processes : pc'[p] \in Last /\ ses'[p] = s
  BY DEF OpenedUntilClosed
<1> QED BY <1>3, <1>4, <1>5 DEF OpenedUntilClosed

(* FSESS_OPENED is cleared by the last close and by nothing else.          *)
LEMMA OpenedStep ==
  ASSUME IInv, Next
  PROVE  OpenedUntilClosed'
<1>1. ASSUME NEW d \in Daemons, Open(d)
      PROVE  OpenedUntilClosed'
  <2>1. fds' = fds /\ \A s \in Sessions :
          /\ sess'[s].opened = sess[s].opened
          /\ sess[s].dead => sess'[s].dead
    BY <1>1, SessionsAre
    DEF Open, Goto, IInv, Typed, Data
  <2>2. \A p \in Processes : pc[p] \in Last \/ pc'[p] \in Last =>
          pc'[p] = pc[p] /\ ses'[p] = ses[p]
    BY <1>1, ThreadsAre
    DEF Open, Goto, thread, IInv, Typed, Placed, Last
  <2> QED BY <2>1, <2>2, OpenedKept DEF IInv
<1>2. ASSUME NEW d \in Daemons, OpenGlobal(d)
      PROVE  OpenedUntilClosed'
  <2>1. fds' = fds /\ \A s \in Sessions :
          /\ sess'[s].opened = sess[s].opened
          /\ sess[s].dead => sess'[s].dead
    BY <1>2, SessionsAre
    DEF OpenGlobal, Goto, InUse, IInv, Typed, Data
  <2>2. \A p \in Processes : pc[p] \in Last \/ pc'[p] \in Last =>
          pc'[p] = pc[p] /\ ses'[p] = ses[p]
    BY <1>2, ThreadsAre
    DEF OpenGlobal, Goto, InUse, thread, IInv, Typed, Placed, Last
  <2> QED BY <2>1, <2>2, OpenedKept DEF IInv
<1>3. ASSUME NEW d \in Daemons, OpenStopped(d)
      PROVE  OpenedUntilClosed'
  <2>1. fds' = fds /\ \A s \in Sessions :
          /\ sess'[s].opened = sess[s].opened
          /\ sess[s].dead => sess'[s].dead
    BY <1>3, SessionsAre
    DEF OpenStopped, Goto, IInv, Typed, Data
  <2>2. \A p \in Processes : pc[p] \in Last \/ pc'[p] \in Last =>
          pc'[p] = pc[p] /\ ses'[p] = ses[p]
    BY <1>3, ThreadsAre
    DEF OpenStopped, Goto, thread, IInv, Typed, Placed, Last
  <2> QED BY <2>1, <2>2, OpenedKept DEF IInv
<1>4. ASSUME NEW d \in Daemons, OpenLocal(d)
      PROVE  OpenedUntilClosed'
  <2>1. fds' = fds /\ \A s \in Sessions :
          /\ sess'[s].opened = sess[s].opened
          /\ sess[s].dead => sess'[s].dead
    BY <1>4, SessionsAre
    DEF OpenLocal, Goto, IInv, Typed, Data
  <2>2. \A p \in Processes : pc[p] \in Last \/ pc'[p] \in Last =>
          pc'[p] = pc[p] /\ ses'[p] = ses[p]
    BY <1>4, ThreadsAre
    DEF OpenLocal, Goto, thread, IInv, Typed, Placed, Last
  <2> QED BY <2>1, <2>2, OpenedKept DEF IInv
<1>5. ASSUME NEW d \in Daemons, OpenAlloc(d)
      PROVE  OpenedUntilClosed'
  <2>1. CASE data # NULL
    BY <1>5, <2>1, ThreadsAre, SessionsAre, SMTT(60)
    DEF OpenAlloc, Goto, IInv, Typed, Placed, ProcessPCs, InSession, Last,
        Holds, OpenedUntilClosed
  <2>2. CASE data = NULL
    <3>1. PICK s \in Sessions :
            /\ sess' = [sess EXCEPT ![s] = NewSession]
            /\ fds' = [fds EXCEPT ![s] = {d}]
            /\ ses' = [ses EXCEPT ![d] = s]
            /\ pc[d] = "alloc" /\ pc' = [pc EXCEPT ![d] = "running"]
      BY <1>5, <2>2 DEF OpenAlloc, Goto
    <3>2. NewSession.opened
      BY DEF NewSession, NoData
    <3>3. \A p \in Processes : pc[p] \notin Last /\ pc'[p] \notin Last
      BY <3>1, ThreadsAre DEF IInv, Typed, Placed, Exclusive, Holds, Last
    <3>4. \A r \in Sessions : ~sess[r].opened
      BY <2>2, SessionsAre DEF IInv, OneSession
    <3> QED BY <3>1, <3>2, <3>3, <3>4 DEF IInv, Typed, OpenedUntilClosed, Last
  <2> QED BY <2>1, <2>2
<1>6. ASSUME NEW d \in Daemons, OpenBusy(d)
      PROVE  OpenedUntilClosed'
  <2>1. fds' = fds /\ \A s \in Sessions :
          /\ sess'[s].opened = sess[s].opened
          /\ sess[s].dead => sess'[s].dead
    BY <1>6, SessionsAre
    DEF OpenBusy, Goto, IInv, Typed, Data
  <2>2. \A p \in Processes : pc[p] \in Last \/ pc'[p] \in Last =>
          pc'[p] = pc[p] /\ ses'[p] = ses[p]
    BY <1>6, ThreadsAre
    DEF OpenBusy, Goto, thread, IInv, Typed, Placed, Last
  <2> QED BY <2>1, <2>2, OpenedKept DEF IInv
<1>7. ASSUME NEW d \in Daemons, Read(d)
      PROVE  OpenedUntilClosed'
  <2>1. sess' = [sess EXCEPT ![ses[d]]["call"] = "read"]
    BY <1>7, Zenon DEF Read, Set
  <2>2. \A s \in Sessions : /\ sess'[s].opened = sess[s].opened
                            /\ sess'[s].dead = sess[s].dead
    BY <2>1, CallEffect DEF IInv, Typed
  <2>3. fds' = fds /\ pc' = pc /\ ses' = ses
    BY <1>7, Zenon DEF Read, thread
  <2>4. \A p \in Processes : pc[p] \in Last => ses[p] \in Sessions
    BY DEF IInv, Sharing
  <2> QED BY <2>2, <2>3, <2>4 DEF IInv, OpenedUntilClosed, Last
<1>8. ASSUME NEW d \in Daemons, Reply(d)
      PROVE  OpenedUntilClosed'
  <2>1. PICK c : sess' = [sess EXCEPT ![ses[d]]["call"] = c]
    BY <1>8, Zenon DEF Reply, Set
  <2>2. \A s \in Sessions : /\ sess'[s].opened = sess[s].opened
                            /\ sess'[s].dead = sess[s].dead
    BY <2>1, CallEffect DEF IInv, Typed
  <2>3. fds' = fds /\ pc' = pc /\ ses' = ses
    BY <1>8, Zenon DEF Reply, thread
  <2>4. \A p \in Processes : pc[p] \in Last => ses[p] \in Sessions
    BY DEF IInv, Sharing
  <2> QED BY <2>2, <2>3, <2>4 DEF IInv, OpenedUntilClosed, Last
<1>9. ASSUME NEW d \in Daemons, NEW h \in Helpers, Fork(d, h)
      PROVE  OpenedUntilClosed'
  BY <1>9, ThreadsAre, SessionsAre, SMTT(60)
  DEF Fork, Goto, Set, kext, device, locks, mp, thread, IInv, Typed, Placed,
      ProcessPCs, UnmounterPCs, UnloaderPCs, InSession, Last, Holds, Data,
      Sharing, Exclusive, OpenedUntilClosed
<1>10. ASSUME NEW p \in Processes, Exit(p)
       PROVE  OpenedUntilClosed'
  <2>1. /\ ses[p] \in Sessions /\ p \in fds[ses[p]] /\ pc[p] \notin Last
        /\ sess' = sess
    BY <1>10 DEF Exit, IInv, Sharing, InSession, Last
  <2>2. CASE fds[ses[p]] = {p}
    <3>1. /\ pc' = [pc EXCEPT ![p] = "close"] /\ ses' = ses
          /\ fds' = [fds EXCEPT ![ses[p]] = {}]
      BY <1>10, <2>2 DEF Exit
    <3>2. sess[ses[p]].opened
      BY <2>1 DEF IInv, OpenedUntilClosed
    <3>3. \A q \in Processes \ {p} : pc'[q] = pc[q]
      BY <3>1 DEF IInv, Placed
    <3>4. pc'[p] = "close" /\ p \in Processes
      BY <1>10, <3>1, ThreadsAre DEF IInv, Placed
    <3>5. \A r \in Sessions : fds'[r] = IF r = ses[p] THEN {} ELSE fds[r]
      BY <3>1 DEF IInv, Typed
    <3> QED BY <2>1, <3>1, <3>2, <3>3, <3>4, <3>5
        DEF IInv, OpenedUntilClosed, Last
  <2>3. CASE fds[ses[p]] # {p}
    <3>1. /\ pc' = [pc EXCEPT ![p] = "idle"]
          /\ ses' = [ses EXCEPT ![p] = NULL]
          /\ fds' = [fds EXCEPT ![ses[p]] = fds[ses[p]] \ {p}]
      BY <1>10, <2>3 DEF Exit
    <3>2. \A q \in Processes \ {p} : pc'[q] = pc[q] /\ ses'[q] = ses[q]
      BY <3>1 DEF IInv, Placed, Typed
    <3>3. pc'[p] = "idle"
      BY <1>10, <3>1, ThreadsAre DEF IInv, Placed
    <3>4. \A r \in Sessions : fds'[r] # {} <=> fds[r] # {}
      BY <2>1, <2>3, <3>1 DEF IInv, Typed
    <3> QED BY <2>1, <3>2, <3>3, <3>4 DEF IInv, OpenedUntilClosed, Last
  <2> QED BY <2>2, <2>3
<1>11. ASSUME NEW p \in Processes, Close(p)
       PROVE  OpenedUntilClosed'
  <2>1. /\ \A s \in Sessions : /\ sess'[s].opened = sess[s].opened
                               /\ sess[s].dead => sess'[s].dead
        /\ sess'[data].dead \/ data \notin Sessions
    BY <1>11, SetDeadEffect DEF Close, IInv, Typed
  <2>2. /\ fds' = fds /\ ses' = ses
        /\ \A q \in Processes : pc'[q] \in Last <=> pc[q] \in Last
        /\ \A q \in Processes : pc'[q] = "close_local" =>
             pc[q] = "close_local" \/ q = p
    BY <1>11, ThreadsAre
    DEF Close, Goto, IInv, Typed, Placed, ProcessPCs, UnmounterPCs,
        UnloaderPCs, InSession, Last, Holds
  <2>3. ses[p] = data
    BY <1>11
    DEF Close, Goto, IInv, Sharing, OpenedUntilClosed, OneSession, Last
  <2> QED BY <2>1, <2>2, <2>3 DEF IInv, Sharing, OpenedUntilClosed, Last
<1>12. ASSUME NEW p \in Processes, CloseLocal(p)
       PROVE  OpenedUntilClosed'
  <2>1. ses[p] \in Sessions /\ pc[p] \in Holds
    BY <1>12 DEF CloseLocal, Goto, IInv, Sharing, Last, Holds
  <2>2. /\ \A r \in Sessions : fds[r] = {}
        /\ \A q \in Processes : pc[q] \in Last => q = p
    BY <2>1 DEF IInv, Exclusive, Last, Holds
  <2>3. \A r \in Sessions : sess[r].opened => r = ses[p]
    BY <2>2 DEF IInv, OpenedUntilClosed
  <2>4. \A r \in Sessions : ~sess'[r].opened
    BY <1>12, <2>1, <2>3 DEF CloseLocal, IInv, Typed, Data
  <2>5. fds' = fds /\ \A q \in Processes : pc'[q] \notin Last
    BY <1>12, <2>2, ThreadsAre DEF CloseLocal, Goto, IInv, Placed, Last
  <2> QED BY <2>2, <2>4, <2>5 DEF OpenedUntilClosed, Last
<1>13. ASSUME NEW p \in Processes, CloseUse(p)
       PROVE  OpenedUntilClosed'
  <2>1. fds' = fds /\ \A s \in Sessions :
          /\ sess'[s].opened = sess[s].opened
          /\ sess[s].dead => sess'[s].dead
    BY <1>13, SessionsAre
    DEF CloseUse, Goto, IInv, Typed, Data
  <2>2. \A q \in Processes : pc[q] \in Last \/ pc'[q] \in Last =>
          pc'[q] = pc[q] /\ ses'[q] = ses[q]
    BY <1>13, ThreadsAre
    DEF CloseUse, Goto, thread, IInv, Typed, Placed, Last
  <2> QED BY <2>1, <2>2, OpenedKept DEF IInv
<1>14. ASSUME NEW p \in Processes, SetDaemonDead(p)
       PROVE  OpenedUntilClosed'
  <2>1. /\ \A s \in Sessions : /\ sess'[s].opened = sess[s].opened
                               /\ sess[s].dead => sess'[s].dead
    <3>1. SetDead(data) \/ sess' = sess
      BY <1>14, Zenon DEF SetDaemonDead
    <3> QED BY <3>1, SetDeadEffect DEF IInv, Typed
  <2>2. /\ fds' = fds /\ ses' = ses
        /\ \A q \in Processes : pc'[q] \in Last <=> pc[q] \in Last
        /\ \A q \in Processes : pc'[q] = "close_local" =>
             pc[q] = "close_local"
    BY <1>14, ThreadsAre
    DEF SetDaemonDead, Goto, IInv, Typed, Placed, ProcessPCs, UnmounterPCs,
        UnloaderPCs, InSession, Last, Holds
  <2> QED BY <2>1, <2>2 DEF IInv, Sharing, OpenedUntilClosed, Last
<1>15. ASSUME NEW h \in Helpers, MountLocal(h)
       PROVE  OpenedUntilClosed'
  <2>1. fds' = fds /\ \A s \in Sessions :
          /\ sess'[s].opened = sess[s].opened
          /\ sess[s].dead => sess'[s].dead
    BY <1>15, SessionsAre
    DEF MountLocal, Goto, IInv, Typed, Data
  <2>2. \A p \in Processes : pc[p] \in Last \/ pc'[p] \in Last =>
          pc'[p] = pc[p] /\ ses'[p] = ses[p]
    BY <1>15, ThreadsAre
    DEF MountLocal, Goto, thread, IInv, Typed, Placed, Last
  <2> QED BY <2>1, <2>2, OpenedKept DEF IInv
<1>16. ASSUME NEW h \in Helpers, MountBig(h)
       PROVE  OpenedUntilClosed'
  <2>1. fds' = fds /\ \A s \in Sessions :
          /\ sess'[s].opened = sess[s].opened
          /\ sess[s].dead => sess'[s].dead
    BY <1>16, SessionsAre
    DEF MountBig, Goto, BigFree, TakeBig, Set, IInv, Typed, Data
  <2>2. \A p \in Processes : pc[p] \in Last \/ pc'[p] \in Last =>
          pc'[p] = pc[p] /\ ses'[p] = ses[p]
    BY <1>16, ThreadsAre
    DEF MountBig, Goto, BigFree, TakeBig, Set, thread, IInv, Typed, Placed,
        Last
  <2> QED BY <2>1, <2>2, OpenedKept DEF IInv
<1>17. ASSUME NEW h \in Helpers, SendInit(h)
       PROVE  OpenedUntilClosed'
  <2>1. fds' = fds /\ \A s \in Sessions :
          /\ sess'[s].opened = sess[s].opened
          /\ sess[s].dead => sess'[s].dead
    BY <1>17, SessionsAre
    DEF SendInit, Goto, Send, Set, IInv, Typed, Data
  <2>2. \A p \in Processes : pc[p] \in Last \/ pc'[p] \in Last =>
          pc'[p] = pc[p] /\ ses'[p] = ses[p]
    BY <1>17, ThreadsAre
    DEF SendInit, Goto, Send, Set, thread, IInv, Typed, Placed, Last
  <2> QED BY <2>1, <2>2, OpenedKept DEF IInv
<1>18. ASSUME NEW h \in Helpers, InitAnswered(h)
       PROVE  OpenedUntilClosed'
  <2>1. /\ \A s \in Sessions : /\ sess'[s].opened = sess[s].opened
                               /\ sess[s].dead => sess'[s].dead
    <3>1. PICK bad \in BOOLEAN :
            sess' = [sess EXCEPT ![ses[h]].call = "none",
                       ![ses[h]].inited = TRUE, ![ses[h]].dead = @ \/ bad]
      BY <1>18 DEF InitAnswered
    <3> QED BY <3>1 DEF IInv, Typed, Data
  <2>2. /\ fds' = fds /\ ses' = ses
        /\ \A q \in Processes : pc'[q] \in Last <=> pc[q] \in Last
        /\ \A q \in Processes : pc'[q] = "close_local" =>
             pc[q] = "close_local"
    BY <1>18, ThreadsAre
    DEF InitAnswered, Goto, IInv, Typed, Placed, ProcessPCs, UnmounterPCs,
        UnloaderPCs, InSession, Last, Holds
  <2> QED BY <2>1, <2>2 DEF IInv, Sharing, OpenedUntilClosed, Last
<1>19. ASSUME NEW h \in Helpers, InitFails(h)
       PROVE  OpenedUntilClosed'
  <2>1. /\ \A s \in Sessions : /\ sess'[s].opened = sess[s].opened
                               /\ sess[s].dead => sess'[s].dead
    <3>1. \/ sess' = sess
          \/ \E c : sess' = [sess EXCEPT ![ses[h]]["call"] = c]
          \/ sess' = [sess EXCEPT ![ses[h]].call = "none",
                                  ![ses[h]].dead = TRUE]
      BY <1>19, Zenon DEF InitFails, Ends, Set
    <3>2. CASE \E c : sess' = [sess EXCEPT ![ses[h]]["call"] = c]
      BY <3>2, CallEffect DEF IInv, Typed
    <3>3. CASE sess' = [sess EXCEPT ![ses[h]].call = "none",
                               ![ses[h]].dead = TRUE]
      BY <3>3, GivenUpEffect DEF IInv, Typed
    <3> QED BY <3>1, <3>2, <3>3
  <2>2. /\ fds' = fds /\ ses' = ses
        /\ \A q \in Processes : pc'[q] \in Last <=> pc[q] \in Last
        /\ \A q \in Processes : pc'[q] = "close_local" =>
             pc[q] = "close_local"
    BY <1>19, ThreadsAre
    DEF InitFails, Goto, Ends, Pending, IInv, Typed, Placed, ProcessPCs,
        UnmounterPCs, UnloaderPCs, InSession, Last, Holds
  <2> QED BY <2>1, <2>2 DEF IInv, Sharing, OpenedUntilClosed, Last
<1>20. ASSUME NEW h \in Helpers, Statfs(h)
       PROVE  OpenedUntilClosed'
  <2>1. /\ \A s \in Sessions : /\ sess'[s].opened = sess[s].opened
                               /\ sess[s].dead => sess'[s].dead
    <3>1. sess' = [sess EXCEPT ![ses[h]]["call"] = "sent"] \/ sess' = sess
      BY <1>20, Zenon DEF Statfs, Send, Set
    <3> QED BY <3>1, CallEffect DEF IInv, Typed
  <2>2. /\ fds' = fds /\ ses' = ses
        /\ \A q \in Processes : pc'[q] \in Last <=> pc[q] \in Last
        /\ \A q \in Processes : pc'[q] = "close_local" =>
             pc[q] = "close_local"
    BY <1>20, ThreadsAre
    DEF Statfs, Goto, Send, IInv, Typed, Placed, ProcessPCs, UnmounterPCs,
        UnloaderPCs, InSession, Last, Holds
  <2> QED BY <2>1, <2>2 DEF IInv, Sharing, OpenedUntilClosed, Last
<1>21. ASSUME NEW h \in Helpers, StatfsEnds(h)
       PROVE  OpenedUntilClosed'
  <2>1. fds' = fds /\ \A s \in Sessions :
          /\ sess'[s].opened = sess[s].opened
          /\ sess[s].dead => sess'[s].dead
    BY <1>21, SessionsAre
    DEF StatfsEnds, Goto, Ends, Pending, Set, IInv, Typed, Data
  <2>2. \A p \in Processes : pc[p] \in Last \/ pc'[p] \in Last =>
          pc'[p] = pc[p] /\ ses'[p] = ses[p]
    BY <1>21, ThreadsAre
    DEF StatfsEnds, Goto, Ends, Pending, Set, thread, IInv, Typed, Placed, Last
  <2> QED BY <2>1, <2>2, OpenedKept DEF IInv
<1>22. ASSUME NEW h \in Helpers, Root(h)
       PROVE  OpenedUntilClosed'
  <2>1. fds' = fds /\ \A s \in Sessions :
          /\ sess'[s].opened = sess[s].opened
          /\ sess[s].dead => sess'[s].dead
    BY <1>22, SessionsAre
    DEF Root, Goto, IInv, Typed, Data
  <2>2. \A p \in Processes : pc[p] \in Last \/ pc'[p] \in Last =>
          pc'[p] = pc[p] /\ ses'[p] = ses[p]
    BY <1>22, ThreadsAre
    DEF Root, Goto, thread, IInv, Typed, Placed, Last
  <2> QED BY <2>1, <2>2, OpenedKept DEF IInv
<1>23. ASSUME NEW h \in Helpers, Unwind(h)
       PROVE  OpenedUntilClosed'
  <2>1. fds' = fds /\ \A s \in Sessions :
          /\ sess'[s].opened = sess[s].opened
          /\ sess[s].dead => sess'[s].dead
    BY <1>23, SessionsAre
    DEF Unwind, Goto, Uncount, Set, DropBig, IInv, Typed, Data
  <2>2. \A p \in Processes : pc[p] \in Last \/ pc'[p] \in Last =>
          pc'[p] = pc[p] /\ ses'[p] = ses[p]
    BY <1>23, ThreadsAre
    DEF Unwind, Goto, Uncount, Set, DropBig, thread, IInv, Typed, Placed, Last
  <2> QED BY <2>1, <2>2, OpenedKept DEF IInv
<1>24. ASSUME NEW h \in Helpers, Finish(h)
       PROVE  OpenedUntilClosed'
  <2>1. fds' = fds /\ \A s \in Sessions :
          /\ sess'[s].opened = sess[s].opened
          /\ sess[s].dead => sess'[s].dead
    BY <1>24, SessionsAre
    DEF Finish, Goto, DropBig, IInv, Typed, Data
  <2>2. \A p \in Processes : pc[p] \in Last \/ pc'[p] \in Last =>
          pc'[p] = pc[p] /\ ses'[p] = ses[p]
    BY <1>24, ThreadsAre
    DEF Finish, Goto, DropBig, thread, IInv, Typed, Placed, Last
  <2> QED BY <2>1, <2>2, OpenedKept DEF IInv
<1>25. ASSUME NEW h \in Helpers, Signal(h)
       PROVE  OpenedUntilClosed'
  <2>1. fds' = fds /\ \A s \in Sessions :
          /\ sess'[s].opened = sess[s].opened
          /\ sess[s].dead => sess'[s].dead
    BY <1>25, SessionsAre
    DEF Signal, Goto, Pending, Set, IInv, Typed, Data
  <2>2. \A p \in Processes : pc[p] \in Last \/ pc'[p] \in Last =>
          pc'[p] = pc[p] /\ ses'[p] = ses[p]
    BY <1>25, ThreadsAre
    DEF Signal, Goto, Pending, Set, thread, IInv, Typed, Placed, Last
  <2> QED BY <2>1, <2>2, OpenedKept DEF IInv
<1>26. CASE Unmount
  <2>1. fds' = fds /\ \A s \in Sessions :
          /\ sess'[s].opened = sess[s].opened
          /\ sess[s].dead => sess'[s].dead
    BY <1>26, SessionsAre
    DEF Unmount, Goto, u, IInv, Typed, Data
  <2>2. \A p \in Processes : pc[p] \in Last \/ pc'[p] \in Last =>
          pc'[p] = pc[p] /\ ses'[p] = ses[p]
    BY <1>26, ThreadsAre
    DEF Unmount, Goto, u, thread, IInv, Typed, Placed, Last
  <2> QED BY <2>1, <2>2, OpenedKept DEF IInv
<1>27. CASE UnmountBegins
  <2>1. /\ \A s \in Sessions : /\ sess'[s].opened = sess[s].opened
                               /\ sess[s].dead => sess'[s].dead
    <3>1. SetDead(ses[u]) \/ sess' = sess
      BY <1>27, Zenon DEF UnmountBegins
    <3> QED BY <3>1, SetDeadEffect DEF IInv, Typed
  <2>2. /\ fds' = fds /\ ses' = ses
        /\ \A q \in Processes : pc'[q] \in Last <=> pc[q] \in Last
        /\ \A q \in Processes : pc'[q] = "close_local" =>
             pc[q] = "close_local"
    BY <1>27, ThreadsAre
    DEF UnmountBegins, Goto, u, IInv, Typed, Placed, ProcessPCs,
        UnmounterPCs, UnloaderPCs, InSession, Last, Holds
  <2> QED BY <2>1, <2>2 DEF IInv, Sharing, OpenedUntilClosed, Last
<1>28. CASE UnmountBusy
  <2>1. fds' = fds /\ \A s \in Sessions :
          /\ sess'[s].opened = sess[s].opened
          /\ sess[s].dead => sess'[s].dead
    BY <1>28, SessionsAre
    DEF UnmountBusy, Goto, u, BigFree, IInv, Typed, Data
  <2>2. \A p \in Processes : pc[p] \in Last \/ pc'[p] \in Last =>
          pc'[p] = pc[p] /\ ses'[p] = ses[p]
    BY <1>28, ThreadsAre
    DEF UnmountBusy, Goto, u, BigFree, thread, IInv, Typed, Placed, Last
  <2> QED BY <2>1, <2>2, OpenedKept DEF IInv
<1>29. CASE UnmountFlushed
  <2>1. fds' = fds /\ \A s \in Sessions :
          /\ sess'[s].opened = sess[s].opened
          /\ sess[s].dead => sess'[s].dead
    BY <1>29, SessionsAre
    DEF UnmountFlushed, Goto, u, BigFree, TakeBig, IInv, Typed, Data
  <2>2. \A p \in Processes : pc[p] \in Last \/ pc'[p] \in Last =>
          pc'[p] = pc[p] /\ ses'[p] = ses[p]
    BY <1>29, ThreadsAre
    DEF UnmountFlushed, Goto, u, BigFree, TakeBig, thread, IInv, Typed, Placed,
        Last
  <2> QED BY <2>1, <2>2, OpenedKept DEF IInv
<1>30. CASE SendDestroy
  <2>1. /\ \A s \in Sessions : /\ sess'[s].opened = sess[s].opened
                               /\ sess[s].dead => sess'[s].dead
    <3>1. sess' = [sess EXCEPT ![ses[u]]["call"] = "sent"] \/ sess' = sess
      BY <1>30, Zenon DEF SendDestroy, Send, Set
    <3>2. sess \in [Sessions -> Data]
      BY DEF IInv, Typed
    <3> QED BY <3>1, <3>2, SMTT(30) DEF Data
  <2>2. /\ fds' = fds /\ ses' = ses
        /\ \A q \in Processes : pc'[q] \in Last <=> pc[q] \in Last
        /\ \A q \in Processes : pc'[q] = "close_local" =>
             pc[q] = "close_local"
    BY <1>30, ThreadsAre
    DEF SendDestroy, Goto, u, Send, IInv, Typed, Placed, ProcessPCs,
        UnmounterPCs, UnloaderPCs, InSession, Last, Holds
  <2> QED BY <2>1, <2>2 DEF IInv, Sharing, OpenedUntilClosed, Last
<1>31. CASE DestroyEnds
  <2>1. fds' = fds /\ \A s \in Sessions :
          /\ sess'[s].opened = sess[s].opened
          /\ sess[s].dead => sess'[s].dead
    BY <1>31, SessionsAre
    DEF DestroyEnds, Goto, u, IInv, Typed, Data
  <2>2. \A p \in Processes : pc[p] \in Last \/ pc'[p] \in Last =>
          pc'[p] = pc[p] /\ ses'[p] = ses[p]
    BY <1>31, ThreadsAre
    DEF DestroyEnds, Goto, u, thread, IInv, Typed, Placed, Last
  <2> QED BY <2>1, <2>2, OpenedKept DEF IInv
<1>32. CASE Release
  <2>1. fds' = fds /\ \A s \in Sessions :
          /\ sess'[s].opened = sess[s].opened
          /\ sess[s].dead => sess'[s].dead
    BY <1>32, SessionsAre
    DEF Release, Goto, u, DropBig, IInv, Typed, Data
  <2>2. \A p \in Processes : pc[p] \in Last \/ pc'[p] \in Last =>
          pc'[p] = pc[p] /\ ses'[p] = ses[p]
    BY <1>32, ThreadsAre
    DEF Release, Goto, u, DropBig, thread, IInv, Typed, Placed, Last
  <2> QED BY <2>1, <2>2, OpenedKept DEF IInv
<1>33. CASE Retake
  <2>1. fds' = fds /\ \A s \in Sessions :
          /\ sess'[s].opened = sess[s].opened
          /\ sess[s].dead => sess'[s].dead
    BY <1>33, SessionsAre
    DEF Retake, Goto, u, BigFree, TakeBig, IInv, Typed, Data
  <2>2. \A p \in Processes : pc[p] \in Last \/ pc'[p] \in Last =>
          pc'[p] = pc[p] /\ ses'[p] = ses[p]
    BY <1>33, ThreadsAre
    DEF Retake, Goto, u, BigFree, TakeBig, thread, IInv, Typed, Placed, Last
  <2> QED BY <2>1, <2>2, OpenedKept DEF IInv
<1>34. CASE Unmounted
  <2>1. fds' = fds /\ \A s \in Sessions :
          /\ sess'[s].opened = sess[s].opened
          /\ sess[s].dead => sess'[s].dead
    BY <1>34, SessionsAre
    DEF Unmounted, Goto, u, Set, Uncount, DropBig, LeftForClose, IInv, Typed,
        Data
  <2>2. \A p \in Processes : pc[p] \in Last \/ pc'[p] \in Last =>
          pc'[p] = pc[p] /\ ses'[p] = ses[p]
    BY <1>34, ThreadsAre
    DEF Unmounted, Goto, u, Set, Uncount, DropBig, LeftForClose, thread, IInv,
        Typed, Placed, Last
  <2> QED BY <2>1, <2>2, OpenedKept DEF IInv
<1>35. CASE Kill
  <2>1. fds' = fds /\ \A s \in Sessions :
          /\ sess'[s].opened = sess[s].opened
          /\ sess[s].dead => sess'[s].dead
    BY <1>35, SessionsAre
    DEF Kill, Cut, IInv, Typed, Data
  <2>2. \A p \in Processes : pc[p] \in Last \/ pc'[p] \in Last =>
          pc'[p] = pc[p] /\ ses'[p] = ses[p]
    BY <1>35, ThreadsAre
    DEF Kill, Cut, thread, IInv, Typed, Placed, Last
  <2> QED BY <2>1, <2>2, OpenedKept DEF IInv
<1>36. CASE Stop
  <2>1. fds' = fds /\ \A s \in Sessions :
          /\ sess'[s].opened = sess[s].opened
          /\ sess[s].dead => sess'[s].dead
    BY <1>36, SessionsAre
    DEF Stop, Goto, IInv, Typed, Data
  <2>2. \A p \in Processes : pc[p] \in Last \/ pc'[p] \in Last =>
          pc'[p] = pc[p] /\ ses'[p] = ses[p]
    BY <1>36, ThreadsAre
    DEF Stop, Goto, thread, IInv, Typed, Placed, Last
  <2> QED BY <2>1, <2>2, OpenedKept DEF IInv
<1>37. CASE StopDevices
  <2>1. fds' = fds /\ \A s \in Sessions :
          /\ sess'[s].opened = sess[s].opened
          /\ sess[s].dead => sess'[s].dead
    BY <1>37, SessionsAre
    DEF StopDevices, Goto, DeviceInUse, InUse, IInv, Typed, Data
  <2>2. \A p \in Processes : pc[p] \in Last \/ pc'[p] \in Last =>
          pc'[p] = pc[p] /\ ses'[p] = ses[p]
    BY <1>37, ThreadsAre
    DEF StopDevices, Goto, DeviceInUse, InUse, thread, IInv, Typed, Placed,
        Last
  <2> QED BY <2>1, <2>2, OpenedKept DEF IInv
<1>38. CASE StopVfs
  <2>1. fds' = fds /\ \A s \in Sessions :
          /\ sess'[s].opened = sess[s].opened
          /\ sess[s].dead => sess'[s].dead
    BY <1>38, SessionsAre
    DEF StopVfs, Goto, Mounting, IInv, Typed, Data
  <2>2. \A p \in Processes : pc[p] \in Last \/ pc'[p] \in Last =>
          pc'[p] = pc[p] /\ ses'[p] = ses[p]
    BY <1>38, ThreadsAre
    DEF StopVfs, Goto, Mounting, thread, IInv, Typed, Placed, Last
  <2> QED BY <2>1, <2>2, OpenedKept DEF IInv
<1>39. CASE Start
  <2>1. fds' = fds /\ \A s \in Sessions :
          /\ sess'[s].opened = sess[s].opened
          /\ sess[s].dead => sess'[s].dead
    BY <1>39, SessionsAre
    DEF Start, IInv, Typed, Data
  <2>2. \A p \in Processes : pc[p] \in Last \/ pc'[p] \in Last =>
          pc'[p] = pc[p] /\ ses'[p] = ses[p]
    BY <1>39, ThreadsAre
    DEF Start, thread, IInv, Typed, Placed, Last
  <2> QED BY <2>1, <2>2, OpenedKept DEF IInv
<1>40. CASE UnmountUnlock
  <2>1. fds' = fds /\ \A s \in Sessions :
          /\ sess'[s].opened = sess[s].opened
          /\ sess[s].dead => sess'[s].dead
    BY <1>40, SessionsAre
    DEF UnmountUnlock, Goto, u, IInv, Typed, Data
  <2>2. \A p \in Processes : pc[p] \in Last \/ pc'[p] \in Last =>
          pc'[p] = pc[p] /\ ses'[p] = ses[p]
    BY <1>40, ThreadsAre
    DEF UnmountUnlock, Goto, u, thread, IInv, Typed, Placed, Last
  <2> QED BY <2>1, <2>2, OpenedKept DEF IInv
<1>41. CASE Dounmount
  <2>1. fds' = fds /\ \A s \in Sessions :
          /\ sess'[s].opened = sess[s].opened
          /\ sess[s].dead => sess'[s].dead
    BY <1>41, SessionsAre
    DEF Dounmount, Goto, u, IInv, Typed, Data
  <2>2. \A p \in Processes : pc[p] \in Last \/ pc'[p] \in Last =>
          pc'[p] = pc[p] /\ ses'[p] = ses[p]
    BY <1>41, ThreadsAre
    DEF Dounmount, Goto, u, thread, IInv, Typed, Placed, Last
  <2> QED BY <2>1, <2>2, OpenedKept DEF IInv
<1> QED BY <1>1, <1>2, <1>3, <1>4, <1>5, <1>6, <1>7, <1>8, <1>9, <1>10, <1>11,
     <1>12, <1>13, <1>14, <1>15, <1>16, <1>17, <1>18, <1>19, <1>20, <1>21,
     <1>22, <1>23, <1>24, <1>25, <1>26, <1>27, <1>28, <1>29, <1>30, <1>31,
     <1>32, <1>33, <1>34, <1>35, <1>36, <1>37, <1>38, <1>39, <1>40, <1>41
  DEF Next, Opening, Closing, Mount, Unmounting

(* fuse_devices_stop finds no session, and nobody opens the device after.  *)
LEMMA StoppingStep ==
  ASSUME IInv, Next
  PROVE  Stopping'
<1>1. ASSUME NEW d \in Daemons, Open(d)
      PROVE  Stopping'
  BY <1>1, ThreadsAre, SessionsAre, SMTT(60)
  DEF Open, Goto, kext, device, locks, mp, thread, IInv, Typed, Placed,
      ProcessPCs, UnmounterPCs, UnloaderPCs, InSession, Last, Holds,
      Stopping, Sharing, Exclusive, OpenedUntilClosed, OneSession, Volumes,
      MountPoints
<1>2. ASSUME NEW d \in Daemons, OpenGlobal(d)
      PROVE  Stopping'
  BY <1>2, ThreadsAre, SessionsAre, SMTT(60)
  DEF OpenGlobal, Goto, InUse, kext, device, locks, mp, thread, IInv, Typed,
      Placed, ProcessPCs, UnmounterPCs, UnloaderPCs, InSession, Last, Holds,
      Stopping, Sharing, Exclusive, OpenedUntilClosed, OneSession, Volumes,
      MountPoints
<1>3. ASSUME NEW d \in Daemons, OpenStopped(d)
      PROVE  Stopping'
  BY <1>3, ThreadsAre, SessionsAre, SMTT(60)
  DEF OpenStopped, Goto, kext, device, locks, mp, thread, IInv, Typed,
      Placed, ProcessPCs, UnmounterPCs, UnloaderPCs, InSession, Last, Holds,
      Stopping, Sharing, Exclusive, OpenedUntilClosed, OneSession, Volumes,
      MountPoints
<1>4. ASSUME NEW d \in Daemons, OpenLocal(d)
      PROVE  Stopping'
  BY <1>4, ThreadsAre, SessionsAre, SMTT(60)
  DEF OpenLocal, Goto, kext, device, locks, mp, thread, IInv, Typed, Placed,
      ProcessPCs, UnmounterPCs, UnloaderPCs, InSession, Last, Holds,
      Stopping, Sharing, Exclusive, OpenedUntilClosed, OneSession, Volumes,
      MountPoints
<1>5. ASSUME NEW d \in Daemons, OpenAlloc(d)
      PROVE  Stopping'
  BY <1>5, ThreadsAre, SessionsAre, SMTT(60)
  DEF OpenAlloc, Goto, NewSession, NoData, kext, device, locks, mp, thread,
      IInv, Typed, Placed, ProcessPCs, UnmounterPCs, UnloaderPCs, InSession,
      Last, Holds, Stopping, Sharing, Exclusive, OpenedUntilClosed,
      OneSession, Volumes, MountPoints
<1>6. ASSUME NEW d \in Daemons, OpenBusy(d)
      PROVE  Stopping'
  BY <1>6, ThreadsAre, SessionsAre, SMTT(60)
  DEF OpenBusy, Goto, kext, device, locks, mp, thread, IInv, Typed, Placed,
      ProcessPCs, UnmounterPCs, UnloaderPCs, InSession, Last, Holds,
      Stopping, Sharing, Exclusive, OpenedUntilClosed, OneSession, Volumes,
      MountPoints
<1>7. ASSUME NEW d \in Daemons, Read(d)
      PROVE  Stopping'
  BY <1>7, ThreadsAre, SessionsAre, SMTT(60)
  DEF Read, Set, kext, device, locks, mp, thread, IInv, Typed, Placed,
      ProcessPCs, UnmounterPCs, UnloaderPCs, InSession, Last, Holds,
      Stopping, Sharing, Exclusive, OpenedUntilClosed, OneSession, Volumes,
      MountPoints
<1>8. ASSUME NEW d \in Daemons, Reply(d)
      PROVE  Stopping'
  BY <1>8, ThreadsAre, SessionsAre, SMTT(60)
  DEF Reply, Set, kext, device, locks, mp, thread, IInv, Typed, Placed,
      ProcessPCs, UnmounterPCs, UnloaderPCs, InSession, Last, Holds,
      Stopping, Sharing, Exclusive, OpenedUntilClosed, OneSession, Volumes,
      MountPoints
<1>9. ASSUME NEW d \in Daemons, NEW h \in Helpers, Fork(d, h)
      PROVE  Stopping'
  BY <1>9, ThreadsAre, SessionsAre, SMTT(60)
  DEF Fork, Goto, Set, kext, device, locks, mp, thread, IInv, Typed, Placed,
      ProcessPCs, UnmounterPCs, UnloaderPCs, InSession, Last, Holds,
      Stopping, Sharing, Exclusive, OpenedUntilClosed, OneSession, Volumes,
      MountPoints
<1>10. ASSUME NEW p \in Processes, Exit(p)
       PROVE  Stopping'
  BY <1>10, ThreadsAre, SessionsAre, SMTT(60)
  DEF Exit, kext, device, locks, mp, thread, IInv, Typed, Placed, ProcessPCs,
      UnmounterPCs, UnloaderPCs, InSession, Last, Holds, Stopping, Sharing,
      Exclusive, OpenedUntilClosed, OneSession, Volumes, MountPoints
<1>11. ASSUME NEW p \in Processes, Close(p)
       PROVE  Stopping'
  BY <1>11, ThreadsAre, SessionsAre, SMTT(60)
  DEF Close, Goto, SetDead, Set, kext, device, locks, mp, thread, IInv,
      Typed, Placed, ProcessPCs, UnmounterPCs, UnloaderPCs, InSession, Last,
      Holds, Stopping, Sharing, Exclusive, OpenedUntilClosed, OneSession,
      Volumes, MountPoints
<1>12. ASSUME NEW p \in Processes, CloseLocal(p)
       PROVE  Stopping'
  BY <1>12, ThreadsAre, SessionsAre, SMTT(60)
  DEF CloseLocal, Goto, LeftForUnmount, Cut, kext, device, locks, mp, thread,
      IInv, Typed, Placed, ProcessPCs, UnmounterPCs, UnloaderPCs, InSession,
      Last, Holds, Stopping, Sharing, Exclusive, OpenedUntilClosed,
      OneSession, Volumes, MountPoints
<1>13. ASSUME NEW p \in Processes, CloseUse(p)
       PROVE  Stopping'
  BY <1>13, ThreadsAre, SessionsAre, SMTT(60)
  DEF CloseUse, Goto, kext, device, locks, mp, thread, IInv, Typed, Placed,
      ProcessPCs, UnmounterPCs, UnloaderPCs, InSession, Last, Holds,
      Stopping, Sharing, Exclusive, OpenedUntilClosed, OneSession, Volumes,
      MountPoints
<1>14. ASSUME NEW p \in Processes, SetDaemonDead(p)
       PROVE  Stopping'
  BY <1>14, ThreadsAre, SessionsAre, SMTT(60)
  DEF SetDaemonDead, Goto, SetDead, Set, kext, device, locks, mp, thread,
      IInv, Typed, Placed, ProcessPCs, UnmounterPCs, UnloaderPCs, InSession,
      Last, Holds, Stopping, Sharing, Exclusive, OpenedUntilClosed,
      OneSession, Volumes, MountPoints
<1>15. ASSUME NEW h \in Helpers, MountLocal(h)
       PROVE  Stopping'
  BY <1>15, ThreadsAre, SessionsAre, SMTT(60)
  DEF MountLocal, Goto, kext, device, locks, mp, thread, IInv, Typed, Placed,
      ProcessPCs, UnmounterPCs, UnloaderPCs, InSession, Last, Holds,
      Stopping, Sharing, Exclusive, OpenedUntilClosed, OneSession, Volumes,
      MountPoints
<1>16. ASSUME NEW h \in Helpers, MountBig(h)
       PROVE  Stopping'
  BY <1>16, ThreadsAre, SessionsAre, SMTT(60)
  DEF MountBig, Goto, BigFree, TakeBig, Set, kext, device, locks, mp, thread,
      IInv, Typed, Placed, ProcessPCs, UnmounterPCs, UnloaderPCs, InSession,
      Last, Holds, Stopping, Sharing, Exclusive, OpenedUntilClosed,
      OneSession, Volumes, MountPoints
<1>17. ASSUME NEW h \in Helpers, SendInit(h)
       PROVE  Stopping'
  BY <1>17, ThreadsAre, SessionsAre, SMTT(60)
  DEF SendInit, Goto, Send, Set, kext, device, locks, mp, thread, IInv,
      Typed, Placed, ProcessPCs, UnmounterPCs, UnloaderPCs, InSession, Last,
      Holds, Stopping, Sharing, Exclusive, OpenedUntilClosed, OneSession,
      Volumes, MountPoints
<1>18. ASSUME NEW h \in Helpers, InitAnswered(h)
       PROVE  Stopping'
  BY <1>18, ThreadsAre, SessionsAre, SMTT(60)
  DEF InitAnswered, Goto, kext, device, locks, mp, thread, IInv, Typed,
      Placed, ProcessPCs, UnmounterPCs, UnloaderPCs, InSession, Last, Holds,
      Stopping, Sharing, Exclusive, OpenedUntilClosed, OneSession, Volumes,
      MountPoints
<1>19. ASSUME NEW h \in Helpers, InitFails(h)
       PROVE  Stopping'
  BY <1>19, ThreadsAre, SessionsAre, SMTT(60)
  DEF InitFails, Goto, Ends, Pending, Set, kext, device, locks, mp, thread,
      IInv, Typed, Placed, ProcessPCs, UnmounterPCs, UnloaderPCs, InSession,
      Last, Holds, Stopping, Sharing, Exclusive, OpenedUntilClosed,
      OneSession, Volumes, MountPoints
<1>20. ASSUME NEW h \in Helpers, Statfs(h)
       PROVE  Stopping'
  BY <1>20, ThreadsAre, SessionsAre, SMTT(60)
  DEF Statfs, Goto, Send, Set, kext, device, locks, mp, thread, IInv, Typed,
      Placed, ProcessPCs, UnmounterPCs, UnloaderPCs, InSession, Last, Holds,
      Stopping, Sharing, Exclusive, OpenedUntilClosed, OneSession, Volumes,
      MountPoints
<1>21. ASSUME NEW h \in Helpers, StatfsEnds(h)
       PROVE  Stopping'
  BY <1>21, ThreadsAre, SessionsAre, SMTT(60)
  DEF StatfsEnds, Goto, Ends, Pending, Set, kext, device, locks, mp, thread,
      IInv, Typed, Placed, ProcessPCs, UnmounterPCs, UnloaderPCs, InSession,
      Last, Holds, Stopping, Sharing, Exclusive, OpenedUntilClosed,
      OneSession, Volumes, MountPoints
<1>22. ASSUME NEW h \in Helpers, Root(h)
       PROVE  Stopping'
  BY <1>22, ThreadsAre, SessionsAre, SMTT(60)
  DEF Root, Goto, kext, device, locks, mp, thread, IInv, Typed, Placed,
      ProcessPCs, UnmounterPCs, UnloaderPCs, InSession, Last, Holds,
      Stopping, Sharing, Exclusive, OpenedUntilClosed, OneSession, Volumes,
      MountPoints
<1>23. ASSUME NEW h \in Helpers, Unwind(h)
       PROVE  Stopping'
  BY <1>23, ThreadsAre, SessionsAre, SMTT(60)
  DEF Unwind, Goto, Uncount, Set, DropBig, kext, device, locks, mp, thread,
      IInv, Typed, Placed, ProcessPCs, UnmounterPCs, UnloaderPCs, InSession,
      Last, Holds, Stopping, Sharing, Exclusive, OpenedUntilClosed,
      OneSession, Volumes, MountPoints
<1>24. ASSUME NEW h \in Helpers, Finish(h)
       PROVE  Stopping'
  BY <1>24, ThreadsAre, SessionsAre, SMTT(60)
  DEF Finish, Goto, DropBig, kext, device, locks, mp, thread, IInv, Typed,
      Placed, ProcessPCs, UnmounterPCs, UnloaderPCs, InSession, Last, Holds,
      Stopping, Sharing, Exclusive, OpenedUntilClosed, OneSession, Volumes,
      MountPoints
<1>25. ASSUME NEW h \in Helpers, Signal(h)
       PROVE  Stopping'
  BY <1>25, ThreadsAre, SessionsAre, SMTT(60)
  DEF Signal, Goto, Pending, Set, kext, device, locks, mp, thread, IInv,
      Typed, Placed, ProcessPCs, UnmounterPCs, UnloaderPCs, InSession, Last,
      Holds, Stopping, Sharing, Exclusive, OpenedUntilClosed, OneSession,
      Volumes, MountPoints
<1>26. CASE Unmount
  BY <1>26, ThreadsAre, SessionsAre, SMTT(60)
  DEF Unmount, Goto, u, kext, device, locks, mp, thread, IInv, Typed, Placed,
      ProcessPCs, UnmounterPCs, UnloaderPCs, InSession, Last, Holds,
      Stopping, Sharing, Exclusive, OpenedUntilClosed, OneSession, Volumes,
      MountPoints
<1>27. CASE UnmountBegins
  BY <1>27, ThreadsAre, SessionsAre, SMTT(60)
  DEF UnmountBegins, Goto, u, BigFree, SetDead, Set, kext, device, locks, mp,
      thread, IInv, Typed, Placed, ProcessPCs, UnmounterPCs, UnloaderPCs,
      InSession, Last, Holds, Stopping, Sharing, Exclusive,
      OpenedUntilClosed, OneSession, Volumes, MountPoints
<1>28. CASE UnmountBusy
  BY <1>28, ThreadsAre, SessionsAre, SMTT(60)
  DEF UnmountBusy, Goto, u, BigFree, kext, device, locks, mp, thread, IInv,
      Typed, Placed, ProcessPCs, UnmounterPCs, UnloaderPCs, InSession, Last,
      Holds, Stopping, Sharing, Exclusive, OpenedUntilClosed, OneSession,
      Volumes, MountPoints
<1>29. CASE UnmountFlushed
  BY <1>29, ThreadsAre, SessionsAre, SMTT(60)
  DEF UnmountFlushed, Goto, u, BigFree, TakeBig, kext, device, locks, mp,
      thread, IInv, Typed, Placed, ProcessPCs, UnmounterPCs, UnloaderPCs,
      InSession, Last, Holds, Stopping, Sharing, Exclusive,
      OpenedUntilClosed, OneSession, Volumes, MountPoints
<1>30. CASE SendDestroy
  BY <1>30, ThreadsAre, SessionsAre, SMTT(60)
  DEF SendDestroy, Goto, u, Send, Set, kext, device, locks, mp, thread, IInv,
      Typed, Placed, ProcessPCs, UnmounterPCs, UnloaderPCs, InSession, Last,
      Holds, Stopping, Sharing, Exclusive, OpenedUntilClosed, OneSession,
      Volumes, MountPoints
<1>31. CASE DestroyEnds
  BY <1>31, ThreadsAre, SessionsAre, SMTT(60)
  DEF DestroyEnds, Goto, u, kext, device, locks, mp, thread, IInv, Typed,
      Placed, ProcessPCs, UnmounterPCs, UnloaderPCs, InSession, Last, Holds,
      Stopping, Sharing, Exclusive, OpenedUntilClosed, OneSession, Volumes,
      MountPoints
<1>32. CASE Release
  BY <1>32, ThreadsAre, SessionsAre, SMTT(60)
  DEF Release, Goto, u, DropBig, kext, device, locks, mp, thread, IInv,
      Typed, Placed, ProcessPCs, UnmounterPCs, UnloaderPCs, InSession, Last,
      Holds, Stopping, Sharing, Exclusive, OpenedUntilClosed, OneSession,
      Volumes, MountPoints
<1>33. CASE Retake
  BY <1>33, ThreadsAre, SessionsAre, SMTT(60)
  DEF Retake, Goto, u, BigFree, TakeBig, kext, device, locks, mp, thread,
      IInv, Typed, Placed, ProcessPCs, UnmounterPCs, UnloaderPCs, InSession,
      Last, Holds, Stopping, Sharing, Exclusive, OpenedUntilClosed,
      OneSession, Volumes, MountPoints
<1>34. CASE Unmounted
  BY <1>34, ThreadsAre, SessionsAre, SMTT(60)
  DEF Unmounted, Goto, u, Set, Uncount, DropBig, LeftForClose, kext, device,
      locks, mp, thread, IInv, Typed, Placed, ProcessPCs, UnmounterPCs,
      UnloaderPCs, InSession, Last, Holds, Stopping, Sharing, Exclusive,
      OpenedUntilClosed, OneSession, Volumes, MountPoints
<1>35. CASE Kill
  BY <1>35, ThreadsAre, SessionsAre, SMTT(60)
  DEF Kill, Cut, kext, device, locks, mp, thread, IInv, Typed, Placed,
      ProcessPCs, UnmounterPCs, UnloaderPCs, InSession, Last, Holds,
      Stopping, Sharing, Exclusive, OpenedUntilClosed, OneSession, Volumes,
      MountPoints
<1>36. CASE Stop
  BY <1>36, ThreadsAre, SessionsAre, SMTT(60)
  DEF Stop, Goto, kext, device, locks, mp, thread, IInv, Typed, Placed,
      ProcessPCs, UnmounterPCs, UnloaderPCs, InSession, Last, Holds,
      Stopping, Sharing, Exclusive, OpenedUntilClosed, OneSession, Volumes,
      MountPoints
<1>37. CASE StopDevices
  BY <1>37, ThreadsAre, SessionsAre, SMTT(60)
  DEF StopDevices, Goto, DeviceInUse, InUse, kext, device, locks, mp, thread,
      IInv, Typed, Placed, ProcessPCs, UnmounterPCs, UnloaderPCs, InSession,
      Last, Holds, Stopping, Sharing, Exclusive, OpenedUntilClosed,
      OneSession, Volumes, MountPoints
<1>38. CASE StopVfs
  BY <1>38, ThreadsAre
  DEF StopVfs, Goto, u, device, IInv, Typed, Placed, Stopping
<1>39. CASE Start
  BY <1>39, ThreadsAre, SessionsAre, SMTT(60)
  DEF Start, kext, device, locks, mp, thread, IInv, Typed, Placed,
      ProcessPCs, UnmounterPCs, UnloaderPCs, InSession, Last, Holds,
      Stopping, Sharing, Exclusive, OpenedUntilClosed, OneSession, Volumes,
      MountPoints
<1>40. CASE UnmountUnlock
  BY <1>40, ThreadsAre, SessionsAre, SMTT(60)
  DEF UnmountUnlock, Goto, u, kext, device, locks, mp, thread,
      IInv, Typed, Placed, ProcessPCs, UnmounterPCs, UnloaderPCs, InSession,
      Last, Holds, Stopping, Sharing, Exclusive, OpenedUntilClosed,
      OneSession, Volumes, MountPoints
<1>41. CASE Dounmount
  BY <1>41, ThreadsAre, SessionsAre, SMTT(60)
  DEF Dounmount, Goto, u, kext, device, locks, mp, thread,
      IInv, Typed, Placed, ProcessPCs, UnmounterPCs, UnloaderPCs, InSession,
      Last, Holds, Stopping, Sharing, Exclusive, OpenedUntilClosed,
      OneSession, Volumes, MountPoints
<1> QED BY <1>1, <1>2, <1>3, <1>4, <1>5, <1>6, <1>7, <1>8, <1>9, <1>10, <1>11,
     <1>12, <1>13, <1>14, <1>15, <1>16, <1>17, <1>18, <1>19, <1>20, <1>21,
     <1>22, <1>23, <1>24, <1>25, <1>26, <1>27, <1>28, <1>29, <1>30, <1>31,
     <1>32, <1>33, <1>34, <1>35, <1>36, <1>37, <1>38, <1>39, <1>40, <1>41
  DEF Next, Opening, Closing, Mount, Unmounting

(* Open makes a session only if there is none; the close, the failed mount *)
(* or the unmount that comes last takes it from the device and destroys it.*)
LEMMA OneSessionStep ==
  ASSUME IInv, Next
  PROVE  OneSession' /\ MountPoints'
<1>1. ASSUME NEW d \in Daemons, Open(d)
      PROVE  OneSession' /\ MountPoints'
  <2>1. data' = data /\ destroyed' = destroyed
    BY <1>1, Zenon DEF Open, device
  <2>2. \A s \in Sessions : /\ sess'[s].opened = sess[s].opened
                            /\ sess'[s].mounted = sess[s].mounted
                            /\ sess[s].dead => sess'[s].dead
                            /\ sess'[s].dead => s \in Made
    BY <1>1 DEF Open, Made
  <2>3. \A s \in Sessions : volume'[s] # "none" <=> volume[s] # "none"
    <3>1. volume' = volume
      BY <1>1, Zenon DEF Open, mp
    <3> QED BY <3>1
  <2> QED BY <2>1, <2>2, <2>3, OneSessionKept DEF IInv
<1>2. ASSUME NEW d \in Daemons, OpenGlobal(d)
      PROVE  OneSession' /\ MountPoints'
  <2>1. data' = data /\ destroyed' = destroyed
    BY <1>2, Zenon DEF OpenGlobal, device
  <2>2. \A s \in Sessions : /\ sess'[s].opened = sess[s].opened
                            /\ sess'[s].mounted = sess[s].mounted
                            /\ sess[s].dead => sess'[s].dead
                            /\ sess'[s].dead => s \in Made
    BY <1>2 DEF OpenGlobal, Made
  <2>3. \A s \in Sessions : volume'[s] # "none" <=> volume[s] # "none"
    <3>1. volume' = volume
      BY <1>2, Zenon DEF OpenGlobal, mp
    <3> QED BY <3>1
  <2> QED BY <2>1, <2>2, <2>3, OneSessionKept DEF IInv
<1>3. ASSUME NEW d \in Daemons, OpenStopped(d)
      PROVE  OneSession' /\ MountPoints'
  <2>1. data' = data /\ destroyed' = destroyed
    BY <1>3, Zenon DEF OpenStopped, device
  <2>2. \A s \in Sessions : /\ sess'[s].opened = sess[s].opened
                            /\ sess'[s].mounted = sess[s].mounted
                            /\ sess[s].dead => sess'[s].dead
                            /\ sess'[s].dead => s \in Made
    BY <1>3 DEF OpenStopped, Made
  <2>3. \A s \in Sessions : volume'[s] # "none" <=> volume[s] # "none"
    <3>1. volume' = volume
      BY <1>3, Zenon DEF OpenStopped, mp
    <3> QED BY <3>1
  <2> QED BY <2>1, <2>2, <2>3, OneSessionKept DEF IInv
<1>4. ASSUME NEW d \in Daemons, OpenLocal(d)
      PROVE  OneSession' /\ MountPoints'
  <2>1. data' = data /\ destroyed' = destroyed
    BY <1>4, Zenon DEF OpenLocal, device
  <2>2. \A s \in Sessions : /\ sess'[s].opened = sess[s].opened
                            /\ sess'[s].mounted = sess[s].mounted
                            /\ sess[s].dead => sess'[s].dead
                            /\ sess'[s].dead => s \in Made
    BY <1>4 DEF OpenLocal, Made
  <2>3. \A s \in Sessions : volume'[s] # "none" <=> volume[s] # "none"
    <3>1. volume' = volume
      BY <1>4, Zenon DEF OpenLocal, mp
    <3> QED BY <3>1
  <2> QED BY <2>1, <2>2, <2>3, OneSessionKept DEF IInv
<1>5. ASSUME NEW d \in Daemons, OpenAlloc(d)
      PROVE  OneSession' /\ MountPoints'
  <2>1. CASE data # NULL
    <3>1. /\ data' = data /\ destroyed' = destroyed /\ sess' = sess
          /\ volume' = volume
      BY <1>5, <2>1, Zenon DEF OpenAlloc, device, mp
    <3> QED BY <3>1, OneSessionKept DEF IInv, Made
  <2>2. CASE data = NULL
    <3>1. PICK s \in Sessions :
            /\ s = Cardinality(Made) + 1 /\ data' = s
            /\ sess' = [sess EXCEPT ![s] = NewSession]
            /\ destroyed' = destroyed
            /\ volume' = volume
      BY <1>5, <2>2 DEF OpenAlloc, mp
    <3>2. NewSession.opened /\ ~NewSession.mounted
      BY DEF NewSession, NoData
    <3>3. /\ Cardinality(Made) \in Nat /\ s \notin Made
          /\ Made = 1..Cardinality(Made)
      <4>1. IsFiniteSet(Made)
        BY SessionsAre, FS_Subset DEF Made
      <4>2. Cardinality(Made) \in Nat
        BY <4>1, FS_CardinalityType
      <4> QED BY <3>1, <4>2 DEF IInv, OneSession
    <3>4. Made' = Made \cup {s}
      BY <3>1, <3>2 DEF Made, IInv, Typed
    <3>5. Made' = 1..s /\ Cardinality(Made') = s
      <4>1. Made' = 1..s /\ s \in Nat
        BY <3>1, <3>3, <3>4
      <4>2. Cardinality(1..s) = s
        BY <4>1, FS_Interval
      <4> QED BY <4>1, <4>2
    <3>6. \A r \in Sessions \ {s} : sess'[r] = sess[r]
      BY <3>1 DEF IInv, Typed
    <3>7. \A r \in Sessions : ~sess[r].opened /\ ~sess[r].mounted
      BY <2>2, SessionsAre DEF IInv, OneSession
    <3>8. sess'[s].opened
      BY <3>1, <3>2 DEF IInv, Typed
    <3>9. \A r \in Sessions :
            /\ data' = r <=> sess'[r].opened \/ sess'[r].mounted
            /\ r \in destroyed' <=> r \in Made' /\ data' # r
      BY <2>2, <3>1, <3>3, <3>4, <3>6, <3>7, <3>8, SessionsAre
      DEF IInv, OneSession
    <3>10. \A r \in Sessions : volume'[r] # "none" <=> sess'[r].mounted
      BY <3>1, <3>2, <3>6, <3>7 DEF IInv, Typed, MountPoints
    <3> QED BY <3>1, <3>4, <3>5, <3>9, <3>10 DEF OneSession, MountPoints
  <2> QED BY <2>1, <2>2
<1>6. ASSUME NEW d \in Daemons, OpenBusy(d)
      PROVE  OneSession' /\ MountPoints'
  <2>1. data' = data /\ destroyed' = destroyed
    BY <1>6, Zenon DEF OpenBusy, device
  <2>2. \A s \in Sessions : /\ sess'[s].opened = sess[s].opened
                            /\ sess'[s].mounted = sess[s].mounted
                            /\ sess[s].dead => sess'[s].dead
                            /\ sess'[s].dead => s \in Made
    BY <1>6 DEF OpenBusy, Made
  <2>3. \A s \in Sessions : volume'[s] # "none" <=> volume[s] # "none"
    <3>1. volume' = volume
      BY <1>6, Zenon DEF OpenBusy, mp
    <3> QED BY <3>1
  <2> QED BY <2>1, <2>2, <2>3, OneSessionKept DEF IInv
<1>7. ASSUME NEW d \in Daemons, Read(d)
      PROVE  OneSession' /\ MountPoints'
  <2>1. data' = data /\ destroyed' = destroyed
    BY <1>7, Zenon DEF Read, device
  <2>2. \A s \in Sessions : /\ sess'[s].opened = sess[s].opened
                            /\ sess'[s].mounted = sess[s].mounted
                            /\ sess[s].dead => sess'[s].dead
                            /\ sess'[s].dead => s \in Made
    <3>1. sess' = [sess EXCEPT ![ses[d]]["call"] = "read"]
      BY <1>7, Zenon DEF Read, Set
    <3> QED BY <3>1 DEF IInv, Typed, Data, Made
  <2>3. \A s \in Sessions : volume'[s] # "none" <=> volume[s] # "none"
    <3>1. volume' = volume
      BY <1>7, Zenon DEF Read, mp
    <3> QED BY <3>1
  <2> QED BY <2>1, <2>2, <2>3, OneSessionKept DEF IInv
<1>8. ASSUME NEW d \in Daemons, Reply(d)
      PROVE  OneSession' /\ MountPoints'
  <2>1. data' = data /\ destroyed' = destroyed
    BY <1>8, Zenon DEF Reply, device
  <2>2. \A s \in Sessions : /\ sess'[s].opened = sess[s].opened
                            /\ sess'[s].mounted = sess[s].mounted
                            /\ sess[s].dead => sess'[s].dead
                            /\ sess'[s].dead => s \in Made
    <3>1. \E c : sess' = [sess EXCEPT ![ses[d]]["call"] = c]
      BY <1>8, Zenon DEF Reply, Set
    <3> QED BY <3>1 DEF IInv, Typed, Data, Made
  <2>3. \A s \in Sessions : volume'[s] # "none" <=> volume[s] # "none"
    <3>1. volume' = volume
      BY <1>8, Zenon DEF Reply, mp
    <3> QED BY <3>1
  <2> QED BY <2>1, <2>2, <2>3, OneSessionKept DEF IInv
<1>9. ASSUME NEW d \in Daemons, NEW h \in Helpers, Fork(d, h)
      PROVE  OneSession' /\ MountPoints'
  <2>1. data' = data /\ destroyed' = destroyed
    BY <1>9, Zenon DEF Fork, device
  <2>2. \A s \in Sessions : /\ sess'[s].opened = sess[s].opened
                            /\ sess'[s].mounted = sess[s].mounted
                            /\ sess[s].dead => sess'[s].dead
                            /\ sess'[s].dead => s \in Made
    <3>1. sess' = [sess EXCEPT ![ses[d]]["forks"] = sess[ses[d]].forks + 1]
      BY <1>9, Zenon DEF Fork, Set
    <3> QED BY <3>1 DEF IInv, Typed, Data, Made
  <2>3. \A s \in Sessions : volume'[s] # "none" <=> volume[s] # "none"
    <3>1. volume' = volume
      BY <1>9, Zenon DEF Fork, mp
    <3> QED BY <3>1
  <2> QED BY <2>1, <2>2, <2>3, OneSessionKept DEF IInv
<1>10. ASSUME NEW p \in Processes, Exit(p)
       PROVE  OneSession' /\ MountPoints'
  <2>1. data' = data /\ destroyed' = destroyed
    BY <1>10, Zenon DEF Exit, device
  <2>2. \A s \in Sessions : /\ sess'[s].opened = sess[s].opened
                            /\ sess'[s].mounted = sess[s].mounted
                            /\ sess[s].dead => sess'[s].dead
                            /\ sess'[s].dead => s \in Made
    BY <1>10 DEF Exit, Made
  <2>3. \A s \in Sessions : volume'[s] # "none" <=> volume[s] # "none"
    <3>1. volume' = volume
      BY <1>10, Zenon DEF Exit, mp
    <3> QED BY <3>1
  <2> QED BY <2>1, <2>2, <2>3, OneSessionKept DEF IInv
<1>11. ASSUME NEW p \in Processes, Close(p)
       PROVE  OneSession' /\ MountPoints'
  <2>1. data' = data /\ destroyed' = destroyed
    BY <1>11, Zenon DEF Close, device
  <2>2. \A s \in Sessions : /\ sess'[s].opened = sess[s].opened
                            /\ sess'[s].mounted = sess[s].mounted
                            /\ sess[s].dead => sess'[s].dead
                            /\ sess'[s].dead => s \in Made
    <3>1. SetDead(data) \/ sess' = sess
      BY <1>11, Zenon DEF Close
    <3>2. data \in Sessions => data \in Made
      BY <1>11, SessionsAre DEF Close, IInv, OneSession
    <3> QED BY <3>1, <3>2, SetDeadEffect DEF IInv, Typed, Made
  <2>3. \A s \in Sessions : volume'[s] # "none" <=> volume[s] # "none"
    <3>1. volume' = volume
      BY <1>11, Zenon DEF Close, mp
    <3> QED BY <3>1
  <2> QED BY <2>1, <2>2, <2>3, OneSessionKept DEF IInv
<1>12. ASSUME NEW p \in Processes, CloseLocal(p)
       PROVE  OneSession' /\ MountPoints'
  <2>1. PICK s : s = ses[p]
    OBVIOUS
  <2>2. /\ s \in Sessions /\ data = s /\ s \in Made /\ sess[s].dead
        /\ \A r \in Sessions \ {s} : ~sess[r].opened /\ ~sess[r].mounted
    BY <1>12, <2>1
    DEF CloseLocal, Goto, IInv, Sharing, OpenedUntilClosed, Last,
       OneSession, Made
  <2>3. \A r \in Sessions : /\ sess'[r].opened = (sess[r].opened /\ r # s)
                            /\ sess'[r].mounted = sess[r].mounted
                            /\ sess'[r].dead = sess[r].dead
    <3>1. sess' = [sess EXCEPT ![s].opened = FALSE,
                     ![s].call = IF LeftForUnmount(s) THEN Cut(@) ELSE @]
      BY <1>12, <2>1, Zenon DEF CloseLocal
    <3> QED BY <2>2, <3>1 DEF IInv, Typed, Data
  <2>4. IF sess[s].mounted THEN data' = data /\ destroyed' = destroyed
        ELSE data' = NULL /\ destroyed' = destroyed \cup {s}
    BY <1>12, <2>1, Zenon DEF CloseLocal, LeftForUnmount
  <2>5. \A r \in Sessions :
          /\ data' = r <=> sess'[r].opened \/ sess'[r].mounted
          /\ r \in destroyed' <=> r \in Made /\ data' # r
          /\ sess'[r].opened \/ sess'[r].dead <=> r \in Made
    <3>1. \A r \in Sessions :
            /\ data = r <=> sess[r].opened \/ sess[r].mounted
            /\ r \in destroyed <=> r \in Made /\ data # r
            /\ r \in Made <=> sess[r].opened \/ sess[r].dead
      BY DEF IInv, OneSession, Made
    <3>2. \A r \in Sessions : r # NULL
      BY SessionsAre
    <3>3. CASE sess[s].mounted
      BY <2>2, <2>3, <2>4, <3>1, <3>2, <3>3
    <3>4. CASE ~sess[s].mounted
      BY <2>2, <2>3, <2>4, <3>1, <3>2, <3>4
    <3> QED BY <3>3, <3>4
  <2>6. volume' = volume
    BY <1>12, Zenon DEF CloseLocal, mp
  <2> QED BY <2>3, <2>4, <2>5, <2>6, OneSessionMoves DEF IInv, MountPoints
<1>13. ASSUME NEW p \in Processes, CloseUse(p)
       PROVE  OneSession' /\ MountPoints'
  <2>1. data' = data /\ destroyed' = destroyed
    BY <1>13, Zenon DEF CloseUse, device
  <2>2. \A s \in Sessions : /\ sess'[s].opened = sess[s].opened
                            /\ sess'[s].mounted = sess[s].mounted
                            /\ sess[s].dead => sess'[s].dead
                            /\ sess'[s].dead => s \in Made
    BY <1>13 DEF CloseUse, Made
  <2>3. \A s \in Sessions : volume'[s] # "none" <=> volume[s] # "none"
    <3>1. volume' = volume
      BY <1>13, Zenon DEF CloseUse, mp
    <3> QED BY <3>1
  <2> QED BY <2>1, <2>2, <2>3, OneSessionKept DEF IInv
<1>14. ASSUME NEW p \in Processes, SetDaemonDead(p)
       PROVE  OneSession' /\ MountPoints'
  <2>1. data' = data /\ destroyed' = destroyed
    BY <1>14, Zenon DEF SetDaemonDead, device
  <2>2. \A s \in Sessions : /\ sess'[s].opened = sess[s].opened
                            /\ sess'[s].mounted = sess[s].mounted
                            /\ sess[s].dead => sess'[s].dead
                            /\ sess'[s].dead => s \in Made
    <3>1. SetDead(data) \/ sess' = sess
      BY <1>14, Zenon DEF SetDaemonDead
    <3>2. data \in Sessions => data \in Made
      BY <1>14, SessionsAre DEF SetDaemonDead, IInv, OneSession
    <3> QED BY <3>1, <3>2, SetDeadEffect DEF IInv, Typed, Made
  <2>3. \A s \in Sessions : volume'[s] # "none" <=> volume[s] # "none"
    <3>1. volume' = volume
      BY <1>14, Zenon DEF SetDaemonDead, mp
    <3> QED BY <3>1
  <2> QED BY <2>1, <2>2, <2>3, OneSessionKept DEF IInv
<1>15. ASSUME NEW h \in Helpers, MountLocal(h)
       PROVE  OneSession' /\ MountPoints'
  <2>1. data' = data /\ destroyed' = destroyed
    BY <1>15, Zenon DEF MountLocal, device
  <2>2. \A s \in Sessions : /\ sess'[s].opened = sess[s].opened
                            /\ sess'[s].mounted = sess[s].mounted
                            /\ sess[s].dead => sess'[s].dead
                            /\ sess'[s].dead => s \in Made
    BY <1>15 DEF MountLocal, Made
  <2>3. \A s \in Sessions : volume'[s] # "none" <=> volume[s] # "none"
    <3>1. volume' = volume
      BY <1>15, Zenon DEF MountLocal, mp
    <3> QED BY <3>1
  <2> QED BY <2>1, <2>2, <2>3, OneSessionKept DEF IInv
<1>16. ASSUME NEW h \in Helpers, MountBig(h)
       PROVE  OneSession' /\ MountPoints'
  <2>1. PICK s : s = ses[h]
    OBVIOUS
  <2>2. s \in Sessions /\ data = s /\ sess[s].opened
    BY <1>16, <2>1, ThreadsAre
    DEF MountBig, Goto, IInv, Sharing, OpenedUntilClosed, InSession,
        OneSession
  <2>3. Set(s, "mounted", TRUE) \/ sess' = sess
    BY <1>16, <2>1, Zenon DEF MountBig
  <2>4. \A r \in Sessions : /\ sess'[r].opened = sess[r].opened
                            /\ sess'[r].mounted => sess[r].mounted \/ r = s
                            /\ sess'[r].dead = sess[r].dead
                            /\ sess[r].mounted => sess'[r].mounted
    BY <2>2, <2>3 DEF Set, IInv, Typed, Data
  <2>7. \A r \in Sessions : volume'[r] # "none" <=> sess'[r].mounted
    <3>1. CASE sess' = sess /\ volume' = volume
      BY <3>1 DEF IInv, MountPoints
    <3>2. CASE /\ Set(s, "mounted", TRUE)
               /\ volume' = [volume EXCEPT ![s] = "mounting"]
      BY <2>2, <3>2 DEF Set, IInv, Typed, Data, MountPoints
    <3> QED BY <1>16, <2>1, <3>1, <3>2, Zenon DEF MountBig, mp
  <2>5. data' = data /\ destroyed' = destroyed
    BY <1>16, Zenon DEF MountBig, device
  <2>6. \A r \in Sessions :
          /\ data' = r <=> sess'[r].opened \/ sess'[r].mounted
          /\ r \in destroyed' <=> r \in Made /\ data' # r
          /\ sess'[r].opened \/ sess'[r].dead <=> r \in Made
    BY <2>2, <2>4, <2>5 DEF IInv, OneSession, Made
  <2> QED BY <2>5, <2>6, <2>7, OneSessionMoves DEF IInv
<1>17. ASSUME NEW h \in Helpers, SendInit(h)
       PROVE  OneSession' /\ MountPoints'
  <2>1. data' = data /\ destroyed' = destroyed
    BY <1>17, Zenon DEF SendInit, device
  <2>2. \A s \in Sessions : /\ sess'[s].opened = sess[s].opened
                            /\ sess'[s].mounted = sess[s].mounted
                            /\ sess[s].dead => sess'[s].dead
                            /\ sess'[s].dead => s \in Made
    <3>1. sess' = [sess EXCEPT ![ses[h]]["call"] = "sent"] \/ sess' = sess
      BY <1>17, Zenon DEF SendInit, Send, Set
    <3> QED BY <3>1, CallEffect DEF IInv, Typed, Made
  <2>3. \A s \in Sessions : volume'[s] # "none" <=> volume[s] # "none"
    <3>1. volume' = volume
      BY <1>17, Zenon DEF SendInit, mp
    <3> QED BY <3>1
  <2> QED BY <2>1, <2>2, <2>3, OneSessionKept DEF IInv
<1>18. ASSUME NEW h \in Helpers, InitAnswered(h)
       PROVE  OneSession' /\ MountPoints'
  <2>1. data' = data /\ destroyed' = destroyed
    BY <1>18, Zenon DEF InitAnswered, device
  <2>2. \A s \in Sessions : /\ sess'[s].opened = sess[s].opened
                            /\ sess'[s].mounted = sess[s].mounted
                            /\ sess[s].dead => sess'[s].dead
                            /\ sess'[s].dead => s \in Made
    <3>1. PICK bad \in BOOLEAN :
            sess' = [sess EXCEPT ![ses[h]].call = "none",
                       ![ses[h]].inited = TRUE, ![ses[h]].dead = @ \/ bad]
      BY <1>18 DEF InitAnswered
    <3>2. ses[h] \in Sessions => ses[h] \in Made
      BY <1>18, ThreadsAre
      DEF InitAnswered, Goto, IInv, Sharing, OpenedUntilClosed, InSession,
          Made
    <3> QED BY <3>1, <3>2 DEF IInv, Typed, Data, Made
  <2>3. \A s \in Sessions : volume'[s] # "none" <=> volume[s] # "none"
    <3>1. volume' = volume
      BY <1>18, Zenon DEF InitAnswered, mp
    <3> QED BY <3>1
  <2> QED BY <2>1, <2>2, <2>3, OneSessionKept DEF IInv
<1>19. ASSUME NEW h \in Helpers, InitFails(h)
       PROVE  OneSession' /\ MountPoints'
  <2>1. data' = data /\ destroyed' = destroyed
    BY <1>19, Zenon DEF InitFails, device
  <2>2. \A s \in Sessions : /\ sess'[s].opened = sess[s].opened
                            /\ sess'[s].mounted = sess[s].mounted
                            /\ sess[s].dead => sess'[s].dead
                            /\ sess'[s].dead => s \in Made
    <3>1. \/ sess' = sess
          \/ \E c : sess' = [sess EXCEPT ![ses[h]]["call"] = c]
          \/ sess' = [sess EXCEPT ![ses[h]].call = "none",
                                  ![ses[h]].dead = TRUE]
      BY <1>19, Zenon DEF InitFails, Ends, Set
    <3>2. ses[h] \in Sessions => ses[h] \in Made
      BY <1>19, ThreadsAre, SessionsAre
      DEF InitFails, Goto, IInv, Sharing, OpenedUntilClosed, InSession, Made
    <3>3. CASE \E c : sess' = [sess EXCEPT ![ses[h]]["call"] = c]
      BY <3>3, CallEffect DEF IInv, Typed, Made
    <3>4. CASE sess' = [sess EXCEPT ![ses[h]].call = "none",
                               ![ses[h]].dead = TRUE]
      BY <3>2, <3>4, GivenUpEffect DEF IInv, Typed, Made
    <3> QED BY <3>1, <3>3, <3>4 DEF Made
  <2>3. \A s \in Sessions : volume'[s] # "none" <=> volume[s] # "none"
    <3>1. volume' = volume
      BY <1>19, Zenon DEF InitFails, mp
    <3> QED BY <3>1
  <2> QED BY <2>1, <2>2, <2>3, OneSessionKept DEF IInv
<1>20. ASSUME NEW h \in Helpers, Statfs(h)
       PROVE  OneSession' /\ MountPoints'
  <2>1. data' = data /\ destroyed' = destroyed
    BY <1>20, Zenon DEF Statfs, device
  <2>2. \A s \in Sessions : /\ sess'[s].opened = sess[s].opened
                            /\ sess'[s].mounted = sess[s].mounted
                            /\ sess[s].dead => sess'[s].dead
                            /\ sess'[s].dead => s \in Made
    <3>1. sess' = [sess EXCEPT ![ses[h]]["call"] = "sent"] \/ sess' = sess
      BY <1>20, Zenon DEF Statfs, Send, Set
    <3> QED BY <3>1, CallEffect DEF IInv, Typed, Made
  <2>3. \A s \in Sessions : volume'[s] # "none" <=> volume[s] # "none"
    <3>1. volume' = volume
      BY <1>20, Zenon DEF Statfs, mp
    <3> QED BY <3>1
  <2> QED BY <2>1, <2>2, <2>3, OneSessionKept DEF IInv
<1>21. ASSUME NEW h \in Helpers, StatfsEnds(h)
       PROVE  OneSession' /\ MountPoints'
  <2>1. data' = data /\ destroyed' = destroyed
    BY <1>21, Zenon DEF StatfsEnds, device
  <2>2. \A s \in Sessions : /\ sess'[s].opened = sess[s].opened
                            /\ sess'[s].mounted = sess[s].mounted
                            /\ sess[s].dead => sess'[s].dead
                            /\ sess'[s].dead => s \in Made
    <3>1. \/ sess' = sess
          \/ \E c : sess' = [sess EXCEPT ![ses[h]]["call"] = c]
          \/ sess' = [sess EXCEPT ![ses[h]].call = "none",
                                  ![ses[h]].dead = TRUE]
      BY <1>21, Zenon DEF StatfsEnds, Ends, Set
    <3>2. ses[h] \in Sessions => ses[h] \in Made
      BY <1>21, ThreadsAre, SessionsAre
      DEF StatfsEnds, Goto, IInv, Sharing, OpenedUntilClosed, InSession, Made
    <3>3. CASE \E c : sess' = [sess EXCEPT ![ses[h]]["call"] = c]
      BY <3>3, CallEffect DEF IInv, Typed, Made
    <3>4. CASE sess' = [sess EXCEPT ![ses[h]].call = "none",
                               ![ses[h]].dead = TRUE]
      BY <3>2, <3>4, GivenUpEffect DEF IInv, Typed, Made
    <3> QED BY <3>1, <3>3, <3>4 DEF Made
  <2>3. \A s \in Sessions : volume'[s] # "none" <=> volume[s] # "none"
    <3>1. volume' = volume
      BY <1>21, Zenon DEF StatfsEnds, mp
    <3> QED BY <3>1
  <2> QED BY <2>1, <2>2, <2>3, OneSessionKept DEF IInv
<1>22. ASSUME NEW h \in Helpers, Root(h)
       PROVE  OneSession' /\ MountPoints'
  <2>1. data' = data /\ destroyed' = destroyed
    BY <1>22, Zenon DEF Root, device
  <2>2. \A s \in Sessions : /\ sess'[s].opened = sess[s].opened
                            /\ sess'[s].mounted = sess[s].mounted
                            /\ sess[s].dead => sess'[s].dead
                            /\ sess'[s].dead => s \in Made
    BY <1>22 DEF Root, Made
  <2>3. \A s \in Sessions : volume'[s] # "none" <=> volume[s] # "none"
    <3>1. volume' = volume
      BY <1>22, Zenon DEF Root, mp
    <3> QED BY <3>1
  <2> QED BY <2>1, <2>2, <2>3, OneSessionKept DEF IInv
<1>23. ASSUME NEW h \in Helpers, Unwind(h)
       PROVE  OneSession' /\ MountPoints'
  <2>1. PICK s : s = ses[h]
    OBVIOUS
  <2>2. s \in Sessions /\ data = s /\ sess[s].opened
    BY <1>23, <2>1, ThreadsAre
    DEF Unwind, Goto, IInv, Sharing, OpenedUntilClosed, InSession, OneSession
  <2>3. Set(s, "mounted", FALSE) /\ data' = data /\ destroyed' = destroyed
    BY <1>23, <2>2, SessionsAre, Zenon DEF Unwind
  <2>4. \A r \in Sessions : /\ sess'[r].opened = sess[r].opened
                            /\ sess'[r].mounted => sess[r].mounted
                            /\ sess'[r].dead = sess[r].dead
    BY <2>2, <2>3 DEF Set, IInv, Typed, Data
  <2>5. \A r \in Sessions :
          /\ data' = r <=> sess'[r].opened \/ sess'[r].mounted
          /\ r \in destroyed' <=> r \in Made /\ data' # r
          /\ sess'[r].opened \/ sess'[r].dead <=> r \in Made
    BY <2>2, <2>3, <2>4 DEF IInv, OneSession, Made
  <2>6. \A r \in Sessions : volume'[r] # "none" <=> sess'[r].mounted
    <3>1. volume' = [volume EXCEPT ![s] = "none"]
      BY <1>23, <2>1 DEF Unwind
    <3> QED BY <2>2, <2>3, <3>1 DEF Set, IInv, Typed, Data, MountPoints
  <2> QED BY <2>3, <2>5, <2>6, OneSessionMoves DEF IInv
<1>24. ASSUME NEW h \in Helpers, Finish(h)
       PROVE  OneSession' /\ MountPoints'
  <2>1. data' = data /\ destroyed' = destroyed
    BY <1>24, Zenon DEF Finish, device, mp
  <2>2. \A s \in Sessions : /\ sess'[s].opened = sess[s].opened
                            /\ sess'[s].mounted = sess[s].mounted
                            /\ sess[s].dead => sess'[s].dead
                            /\ sess'[s].dead => s \in Made
    BY <1>24 DEF Finish, Made
  <2>3. \A s \in Sessions : volume'[s] # "none" <=> volume[s] # "none"
    BY <1>24, ThreadsAre
    DEF Finish, Goto, IInv, Typed, Volumes, AtVolume, InSession, Sharing
  <2> QED BY <2>1, <2>2, <2>3, OneSessionKept DEF IInv
<1>25. ASSUME NEW h \in Helpers, Signal(h)
       PROVE  OneSession' /\ MountPoints'
  <2>1. data' = data /\ destroyed' = destroyed
    BY <1>25, Zenon DEF Signal, device
  <2>2. \A s \in Sessions : /\ sess'[s].opened = sess[s].opened
                            /\ sess'[s].mounted = sess[s].mounted
                            /\ sess[s].dead => sess'[s].dead
                            /\ sess'[s].dead => s \in Made
    <3>1. \/ sess' = sess
          \/ \E c : sess' = [sess EXCEPT ![ses[h]]["call"] = c]
          \/ sess' = [sess EXCEPT ![ses[h]].call = "none",
                                  ![ses[h]].dead = TRUE]
      BY <1>25, Zenon DEF Signal, Set
    <3>2. ses[h] \in Sessions => ses[h] \in Made
      BY <1>25, ThreadsAre, SessionsAre
      DEF Signal, Goto, IInv, Sharing, OpenedUntilClosed, InSession, Made
    <3>3. CASE \E c : sess' = [sess EXCEPT ![ses[h]]["call"] = c]
      BY <3>3, CallEffect DEF IInv, Typed, Made
    <3>4. CASE sess' = [sess EXCEPT ![ses[h]].call = "none",
                               ![ses[h]].dead = TRUE]
      BY <3>2, <3>4, GivenUpEffect DEF IInv, Typed, Made
    <3> QED BY <3>1, <3>3, <3>4 DEF Made
  <2>3. \A s \in Sessions : volume'[s] # "none" <=> volume[s] # "none"
    <3>1. volume' = volume
      BY <1>25, Zenon DEF Signal, mp
    <3> QED BY <3>1
  <2> QED BY <2>1, <2>2, <2>3, OneSessionKept DEF IInv
<1>26. CASE Unmount
  <2>1. data' = data /\ destroyed' = destroyed
    BY <1>26, Zenon DEF Unmount, device
  <2>2. \A s \in Sessions : /\ sess'[s].opened = sess[s].opened
                            /\ sess'[s].mounted = sess[s].mounted
                            /\ sess[s].dead => sess'[s].dead
                            /\ sess'[s].dead => s \in Made
    BY <1>26 DEF Unmount, Made
  <2>3. \A s \in Sessions : volume'[s] # "none" <=> volume[s] # "none"
    BY <1>26, ThreadsAre
    DEF Unmount, u, Goto, IInv, Typed, Volumes, AtVolume
  <2> QED BY <2>1, <2>2, <2>3, OneSessionKept DEF IInv
<1>27. CASE UnmountBegins
  <2>1. data' = data /\ destroyed' = destroyed
    BY <1>27, Zenon DEF UnmountBegins, device
  <2>2. \A s \in Sessions : /\ sess'[s].opened = sess[s].opened
                            /\ sess'[s].mounted = sess[s].mounted
                            /\ sess[s].dead => sess'[s].dead
                            /\ sess'[s].dead => s \in Made
    <3>1. SetDead(ses[u]) \/ sess' = sess
      BY <1>27, Zenon DEF UnmountBegins
    <3>2. ses[u] \in Sessions => ses[u] \in Made
      BY <1>27, SessionsAre
      DEF UnmountBegins, IInv, OneSession, Volumes, MountPoints, Goto, u, Made
    <3> QED BY <3>1, <3>2, SetDeadEffect DEF IInv, Typed, Made
  <2>3. \A s \in Sessions : volume'[s] # "none" <=> volume[s] # "none"
    <3>1. volume' = volume
      BY <1>27, Zenon DEF UnmountBegins, mp
    <3> QED BY <3>1
  <2> QED BY <2>1, <2>2, <2>3, OneSessionKept DEF IInv
<1>28. CASE UnmountBusy
  <2>1. data' = data /\ destroyed' = destroyed
    BY <1>28, Zenon DEF UnmountBusy, device
  <2>2. \A s \in Sessions : /\ sess'[s].opened = sess[s].opened
                            /\ sess'[s].mounted = sess[s].mounted
                            /\ sess[s].dead => sess'[s].dead
                            /\ sess'[s].dead => s \in Made
    BY <1>28 DEF UnmountBusy, Made
  <2>3. \A s \in Sessions : volume'[s] # "none" <=> volume[s] # "none"
    BY <1>28, ThreadsAre
    DEF UnmountBusy, u, Goto, IInv, Typed, Volumes, AtVolume
  <2> QED BY <2>1, <2>2, <2>3, OneSessionKept DEF IInv
<1>29. CASE UnmountFlushed
  <2>1. data' = data /\ destroyed' = destroyed
    BY <1>29, Zenon DEF UnmountFlushed, device
  <2>2. \A s \in Sessions : /\ sess'[s].opened = sess[s].opened
                            /\ sess'[s].mounted = sess[s].mounted
                            /\ sess[s].dead => sess'[s].dead
                            /\ sess'[s].dead => s \in Made
    BY <1>29 DEF UnmountFlushed, Made
  <2>3. \A s \in Sessions : volume'[s] # "none" <=> volume[s] # "none"
    <3>1. volume' = volume
      BY <1>29, Zenon DEF UnmountFlushed, mp
    <3> QED BY <3>1
  <2> QED BY <2>1, <2>2, <2>3, OneSessionKept DEF IInv
<1>30. CASE SendDestroy
  <2>1. data' = data /\ destroyed' = destroyed
    BY <1>30, Zenon DEF SendDestroy, device
  <2>2. \A s \in Sessions : /\ sess'[s].opened = sess[s].opened
                            /\ sess'[s].mounted = sess[s].mounted
                            /\ sess[s].dead => sess'[s].dead
                            /\ sess'[s].dead => s \in Made
    <3>1. sess' = [sess EXCEPT ![ses[u]]["call"] = "sent"] \/ sess' = sess
      BY <1>30, Zenon DEF SendDestroy, Send, Set
    <3> QED BY <3>1, CallEffect DEF IInv, Typed, Made
  <2>3. \A s \in Sessions : volume'[s] # "none" <=> volume[s] # "none"
    <3>1. volume' = volume
      BY <1>30, Zenon DEF SendDestroy, mp
    <3> QED BY <3>1
  <2> QED BY <2>1, <2>2, <2>3, OneSessionKept DEF IInv
<1>31. CASE DestroyEnds
  <2>1. data' = data /\ destroyed' = destroyed
    BY <1>31, Zenon DEF DestroyEnds, device
  <2>2. \A s \in Sessions : /\ sess'[s].opened = sess[s].opened
                            /\ sess'[s].mounted = sess[s].mounted
                            /\ sess[s].dead => sess'[s].dead
                            /\ sess'[s].dead => s \in Made
    <3>1. \/ sess' = sess
          \/ \E c : sess' = [sess EXCEPT ![ses[u]]["call"] = c]
          \/ sess' = [sess EXCEPT ![ses[u]].call = "none",
                                  ![ses[u]].dead = TRUE]
      BY <1>31, Zenon DEF DestroyEnds, u
    <3>2. ses[u] \in Sessions => ses[u] \in Made
      BY <1>31, ThreadsAre, SessionsAre
      DEF DestroyEnds, Goto, u, IInv, Sharing, OpenedUntilClosed, InSession,
          Made, Volumes, MountPoints, OneSession, Placed
    <3>3. CASE \E c : sess' = [sess EXCEPT ![ses[u]]["call"] = c]
      BY <3>3, CallEffect DEF IInv, Typed, Made
    <3>4. CASE sess' = [sess EXCEPT ![ses[u]].call = "none",
                               ![ses[u]].dead = TRUE]
      BY <3>2, <3>4, GivenUpEffect DEF IInv, Typed, Made
    <3> QED BY <3>1, <3>3, <3>4 DEF Made
  <2>3. \A s \in Sessions : volume'[s] # "none" <=> volume[s] # "none"
    <3>1. volume' = volume
      BY <1>31, Zenon DEF DestroyEnds, mp
    <3> QED BY <3>1
  <2> QED BY <2>1, <2>2, <2>3, OneSessionKept DEF IInv
<1>32. CASE Release
  <2>1. data' = data /\ destroyed' = destroyed
    BY <1>32, Zenon DEF Release, device
  <2>2. \A s \in Sessions : /\ sess'[s].opened = sess[s].opened
                            /\ sess'[s].mounted = sess[s].mounted
                            /\ sess[s].dead => sess'[s].dead
                            /\ sess'[s].dead => s \in Made
    BY <1>32 DEF Release, Made
  <2>3. \A s \in Sessions : volume'[s] # "none" <=> volume[s] # "none"
    <3>1. volume' = volume
      BY <1>32, Zenon DEF Release, mp
    <3> QED BY <3>1
  <2> QED BY <2>1, <2>2, <2>3, OneSessionKept DEF IInv
<1>33. CASE Retake
  <2>1. data' = data /\ destroyed' = destroyed
    BY <1>33, Zenon DEF Retake, device
  <2>2. \A s \in Sessions : /\ sess'[s].opened = sess[s].opened
                            /\ sess'[s].mounted = sess[s].mounted
                            /\ sess[s].dead => sess'[s].dead
                            /\ sess'[s].dead => s \in Made
    BY <1>33 DEF Retake, Made
  <2>3. \A s \in Sessions : volume'[s] # "none" <=> volume[s] # "none"
    <3>1. volume' = volume
      BY <1>33, Zenon DEF Retake, mp
    <3> QED BY <3>1
  <2> QED BY <2>1, <2>2, <2>3, OneSessionKept DEF IInv
<1>34. CASE Unmounted
  <2>1. PICK s : s = ses[u]
    OBVIOUS
  <2>2. s \in Sessions /\ data = s /\ sess[s].mounted
    BY <1>34, <2>1
    DEF Unmounted, Goto, u, IInv, Volumes, MountPoints, OneSession
  <2>3. Set(s, "mounted", FALSE)
    BY <1>34, <2>1, Zenon DEF Unmounted
  <2>4. \A r \in Sessions : /\ sess'[r].opened = sess[r].opened
                            /\ sess'[r].mounted = (sess[r].mounted /\ r # s)
                            /\ sess'[r].dead = sess[r].dead
    BY <2>2, <2>3 DEF Set, IInv, Typed, Data
  <2>5. IF sess[s].opened THEN data' = data /\ destroyed' = destroyed
        ELSE data' = NULL /\ destroyed' = destroyed \cup {s}
    BY <1>34, <2>1, Zenon DEF Unmounted, LeftForClose
  <2>6. \A r \in Sessions :
          /\ data' = r <=> sess'[r].opened \/ sess'[r].mounted
          /\ r \in destroyed' <=> r \in Made /\ data' # r
          /\ sess'[r].opened \/ sess'[r].dead <=> r \in Made
    <3>1. \A r \in Sessions :
            /\ data = r <=> sess[r].opened \/ sess[r].mounted
            /\ r \in destroyed <=> r \in Made /\ data # r
            /\ r \in Made <=> sess[r].opened \/ sess[r].dead
      BY DEF IInv, OneSession, Made
    <3>2. \A r \in Sessions : r # NULL
      BY SessionsAre
    <3>3. CASE sess[s].opened
      BY <2>2, <2>4, <2>5, <3>1, <3>2, <3>3
    <3>4. CASE ~sess[s].opened
      <4>1. s \in Made
        BY <2>2, <3>2 DEF IInv, OneSession
      <4> QED BY <2>2, <2>4, <2>5, <3>1, <3>2, <3>4, <4>1
    <3> QED BY <3>3, <3>4
  <2>7. \A r \in Sessions : volume'[r] # "none" <=> sess'[r].mounted
    <3>1. volume' = [volume EXCEPT ![s] = "none"]
      BY <1>34, <2>1 DEF Unmounted
    <3> QED BY <2>2, <2>3, <3>1 DEF Set, IInv, Typed, Data, MountPoints
  <2> QED BY <2>5, <2>6, <2>7, OneSessionMoves DEF IInv
<1>35. CASE Kill
  <2>1. data' = data /\ destroyed' = destroyed
    BY <1>35, Zenon DEF Kill, device
  <2>2. \A s \in Sessions : /\ sess'[s].opened = sess[s].opened
                            /\ sess'[s].mounted = sess[s].mounted
                            /\ sess[s].dead => sess'[s].dead
                            /\ sess'[s].dead => s \in Made
    <3>1. sess' = [sess EXCEPT ![data].dead = TRUE, ![data].call = Cut(@)]
      BY <1>35, Zenon DEF Kill
    <3>2. data \in Sessions => data \in Made
      BY <1>35, SessionsAre DEF Kill, IInv, OneSession
    <3> QED BY <3>1, <3>2 DEF IInv, Typed, Data, Made
  <2>3. \A s \in Sessions : volume'[s] # "none" <=> volume[s] # "none"
    <3>1. volume' = volume
      BY <1>35, Zenon DEF Kill, mp
    <3> QED BY <3>1
  <2> QED BY <2>1, <2>2, <2>3, OneSessionKept DEF IInv
<1>36. CASE Stop
  <2>1. data' = data /\ destroyed' = destroyed
    BY <1>36, Zenon DEF Stop, device
  <2>2. \A s \in Sessions : /\ sess'[s].opened = sess[s].opened
                            /\ sess'[s].mounted = sess[s].mounted
                            /\ sess[s].dead => sess'[s].dead
                            /\ sess'[s].dead => s \in Made
    BY <1>36 DEF Stop, Made
  <2>3. \A s \in Sessions : volume'[s] # "none" <=> volume[s] # "none"
    <3>1. volume' = volume
      BY <1>36, Zenon DEF Stop, mp
    <3> QED BY <3>1
  <2> QED BY <2>1, <2>2, <2>3, OneSessionKept DEF IInv
<1>37. CASE StopDevices
  <2>1. data' = data /\ destroyed' = destroyed
    BY <1>37, Zenon DEF StopDevices, device
  <2>2. \A s \in Sessions : /\ sess'[s].opened = sess[s].opened
                            /\ sess'[s].mounted = sess[s].mounted
                            /\ sess[s].dead => sess'[s].dead
                            /\ sess'[s].dead => s \in Made
    BY <1>37 DEF StopDevices, Made
  <2>3. \A s \in Sessions : volume'[s] # "none" <=> volume[s] # "none"
    <3>1. volume' = volume
      BY <1>37, Zenon DEF StopDevices, mp
    <3> QED BY <3>1
  <2> QED BY <2>1, <2>2, <2>3, OneSessionKept DEF IInv
<1>38. CASE StopVfs
  <2>1. data' = data /\ destroyed' = destroyed
    BY <1>38, Zenon DEF StopVfs, device
  <2>2. \A s \in Sessions : /\ sess'[s].opened = sess[s].opened
                            /\ sess'[s].mounted = sess[s].mounted
                            /\ sess[s].dead => sess'[s].dead
                            /\ sess'[s].dead => s \in Made
    BY <1>38 DEF StopVfs, Made
  <2>3. \A s \in Sessions : volume'[s] # "none" <=> volume[s] # "none"
    <3>1. volume' = volume
      BY <1>38, Zenon DEF StopVfs, mp
    <3> QED BY <3>1
  <2> QED BY <2>1, <2>2, <2>3, OneSessionKept DEF IInv
<1>39. CASE Start
  <2>1. data' = data /\ destroyed' = destroyed
    BY <1>39, Zenon DEF Start, device
  <2>2. \A s \in Sessions : /\ sess'[s].opened = sess[s].opened
                            /\ sess'[s].mounted = sess[s].mounted
                            /\ sess[s].dead => sess'[s].dead
                            /\ sess'[s].dead => s \in Made
    BY <1>39 DEF Start, Made
  <2>3. \A s \in Sessions : volume'[s] # "none" <=> volume[s] # "none"
    <3>1. volume' = volume
      BY <1>39, Zenon DEF Start, mp
    <3> QED BY <3>1
  <2> QED BY <2>1, <2>2, <2>3, OneSessionKept DEF IInv
<1>40. CASE UnmountUnlock
  <2>1. data' = data /\ destroyed' = destroyed
    BY <1>40, Zenon DEF UnmountUnlock, device
  <2>2. \A s \in Sessions : /\ sess'[s].opened = sess[s].opened
                            /\ sess'[s].mounted = sess[s].mounted
                            /\ sess[s].dead => sess'[s].dead
                            /\ sess'[s].dead => s \in Made
    BY <1>40 DEF UnmountUnlock, Made
  <2>3. \A s \in Sessions : volume'[s] # "none" <=> volume[s] # "none"
    <3>1. volume' = volume
      BY <1>40, Zenon DEF UnmountUnlock, mp
    <3> QED BY <3>1
  <2> QED BY <2>1, <2>2, <2>3, OneSessionKept DEF IInv
<1>41. CASE Dounmount
  <2>1. data' = data /\ destroyed' = destroyed
    BY <1>41, Zenon DEF Dounmount, device
  <2>2. \A s \in Sessions : /\ sess'[s].opened = sess[s].opened
                            /\ sess'[s].mounted = sess[s].mounted
                            /\ sess[s].dead => sess'[s].dead
                            /\ sess'[s].dead => s \in Made
    BY <1>41 DEF Dounmount, Made
  <2>3. \A s \in Sessions : volume'[s] # "none" <=> volume[s] # "none"
    <3>1. volume' = volume
      BY <1>41, Zenon DEF Dounmount, mp
    <3> QED BY <3>1
  <2> QED BY <2>1, <2>2, <2>3, OneSessionKept DEF IInv
<1> QED BY <1>1, <1>2, <1>3, <1>4, <1>5, <1>6, <1>7, <1>8, <1>9, <1>10, <1>11,
     <1>12, <1>13, <1>14, <1>15, <1>16, <1>17, <1>18, <1>19, <1>20, <1>21,
     <1>22, <1>23, <1>24, <1>25, <1>26, <1>27, <1>28, <1>29, <1>30, <1>31,
     <1>32, <1>33, <1>34, <1>35, <1>36, <1>37, <1>38, <1>39, <1>40, <1>41
  DEF Next, Opening, Closing, Mount, Unmounting

(* Nobody mounts where another mounts or unmounts.                         *)
LEMMA VolumesStep ==
  ASSUME IInv, Next
  PROVE  Volumes'
<1>1. ASSUME NEW d \in Daemons, Open(d)
      PROVE  Volumes'
  BY <1>1, ThreadsAre, SessionsAre, SMTT(60)
  DEF Open, Goto, kext, device, locks, mp, thread, IInv, Typed, Placed,
      ProcessPCs, UnmounterPCs, InSession, Last, Holds, AtVolume, Volumes,
      Sharing
<1>2. ASSUME NEW d \in Daemons, OpenGlobal(d)
      PROVE  Volumes'
  BY <1>2, ThreadsAre, SessionsAre, SMTT(60)
  DEF OpenGlobal, Goto, InUse, kext, device, locks, mp, thread, IInv, Typed,
      Placed, ProcessPCs, UnmounterPCs, InSession, Last, Holds, AtVolume,
      Volumes, Sharing
<1>3. ASSUME NEW d \in Daemons, OpenStopped(d)
      PROVE  Volumes'
  BY <1>3, ThreadsAre, SessionsAre, SMTT(60)
  DEF OpenStopped, Goto, kext, device, locks, mp, thread, IInv, Typed,
      Placed, ProcessPCs, UnmounterPCs, InSession, Last, Holds, AtVolume,
      Volumes, Sharing
<1>4. ASSUME NEW d \in Daemons, OpenLocal(d)
      PROVE  Volumes'
  BY <1>4, ThreadsAre, SessionsAre, SMTT(60)
  DEF OpenLocal, Goto, kext, device, locks, mp, thread, IInv, Typed, Placed,
      ProcessPCs, UnmounterPCs, InSession, Last, Holds, AtVolume, Volumes,
      Sharing
<1>5. ASSUME NEW d \in Daemons, OpenAlloc(d)
      PROVE  Volumes'
  BY <1>5, ThreadsAre, SessionsAre, SMTT(60)
  DEF OpenAlloc, Goto, NewSession, NoData, kext, device, locks, mp, thread,
      IInv, Typed, Placed, ProcessPCs, UnmounterPCs, InSession, Last, Holds,
      AtVolume, Volumes, Sharing
<1>6. ASSUME NEW d \in Daemons, OpenBusy(d)
      PROVE  Volumes'
  BY <1>6, ThreadsAre, SessionsAre, SMTT(60)
  DEF OpenBusy, Goto, kext, device, locks, mp, thread, IInv, Typed, Placed,
      ProcessPCs, UnmounterPCs, InSession, Last, Holds, AtVolume, Volumes,
      Sharing
<1>7. ASSUME NEW d \in Daemons, Read(d)
      PROVE  Volumes'
  BY <1>7, ThreadsAre, SessionsAre, SMTT(60)
  DEF Read, Set, kext, device, locks, mp, thread, IInv, Typed, Placed,
      ProcessPCs, UnmounterPCs, InSession, Last, Holds, AtVolume, Volumes,
      Sharing
<1>8. ASSUME NEW d \in Daemons, Reply(d)
      PROVE  Volumes'
  BY <1>8, ThreadsAre, SessionsAre, SMTT(60)
  DEF Reply, Set, kext, device, locks, mp, thread, IInv, Typed, Placed,
      ProcessPCs, UnmounterPCs, InSession, Last, Holds, AtVolume, Volumes,
      Sharing
<1>9. ASSUME NEW d \in Daemons, NEW h \in Helpers, Fork(d, h)
      PROVE  Volumes'
  BY <1>9, ThreadsAre, SessionsAre, SMTT(60)
  DEF Fork, Goto, Set, kext, device, locks, mp, thread, IInv, Typed, Placed,
      ProcessPCs, UnmounterPCs, InSession, Last, Holds, AtVolume, Volumes,
      Sharing
<1>10. ASSUME NEW p \in Processes, Exit(p)
       PROVE  Volumes'
  BY <1>10, ThreadsAre, SessionsAre, SMTT(60)
  DEF Exit, kext, device, locks, mp, thread, IInv, Typed, Placed, ProcessPCs,
      UnmounterPCs, InSession, Last, Holds, AtVolume, Volumes, Sharing
<1>11. ASSUME NEW p \in Processes, Close(p)
       PROVE  Volumes'
  BY <1>11, ThreadsAre, SessionsAre, SMTT(60)
  DEF Close, Goto, SetDead, Set, kext, device, locks, mp, thread, IInv,
      Typed, Placed, ProcessPCs, UnmounterPCs, InSession, Last, Holds,
      AtVolume, Volumes, Sharing
<1>12. ASSUME NEW p \in Processes, CloseLocal(p)
       PROVE  Volumes'
  BY <1>12, ThreadsAre, SessionsAre, SMTT(60)
  DEF CloseLocal, Goto, LeftForUnmount, Cut, kext, device, locks, mp, thread,
      IInv, Typed, Placed, ProcessPCs, UnmounterPCs, InSession, Last, Holds,
      AtVolume, Volumes, Sharing
<1>13. ASSUME NEW p \in Processes, CloseUse(p)
       PROVE  Volumes'
  BY <1>13, ThreadsAre, SessionsAre, SMTT(60)
  DEF CloseUse, Goto, kext, device, locks, mp, thread, IInv, Typed, Placed,
      ProcessPCs, UnmounterPCs, InSession, Last, Holds, AtVolume, Volumes,
      Sharing
<1>14. ASSUME NEW p \in Processes, SetDaemonDead(p)
       PROVE  Volumes'
  BY <1>14, ThreadsAre, SessionsAre, SMTT(60)
  DEF SetDaemonDead, Goto, SetDead, Set, kext, device, locks, mp, thread,
      IInv, Typed, Placed, ProcessPCs, UnmounterPCs, InSession, Last, Holds,
      AtVolume, Volumes, Sharing
<1>15. ASSUME NEW h \in Helpers, MountLocal(h)
       PROVE  Volumes'
  BY <1>15, ThreadsAre, SessionsAre, SMTT(60)
  DEF MountLocal, Goto, kext, device, locks, mp, thread, IInv, Typed, Placed,
      ProcessPCs, UnmounterPCs, InSession, Last, Holds, AtVolume, Volumes,
      Sharing
<1>16. ASSUME NEW h \in Helpers, MountBig(h)
       PROVE  Volumes'
  <2>1. CASE mp' = mp /\ ses' = ses /\ pc[h] = "mount_big"
             /\ pc' = [pc EXCEPT ![h] = "failed"]
    BY <2>1, ThreadsAre DEF mp, IInv, Placed, Volumes, AtVolume
  <2>2. CASE /\ ~sess[ses[h]].mounted /\ ses' = ses /\ pc[h] = "mount_big"
             /\ volume' = [volume EXCEPT ![ses[h]] = "mounting"]
             /\ \E to \in {"unwind", "init"} : pc' = [pc EXCEPT ![h] = to]
    <3>1. ses[h] \in Sessions /\ volume[ses[h]] = "none"
      BY <2>2, ThreadsAre DEF IInv, Sharing, InSession, MountPoints
    <3>2. /\ pc'[h] \in {"unwind", "init"}
          /\ \A t \in Threads \ {h} : pc'[t] = pc[t]
      BY <2>2, ThreadsAre DEF IInv, Placed
    <3>3. /\ volume'[ses[h]] = "mounting"
          /\ \A s \in Sessions \ {ses[h]} : volume'[s] = volume[s]
      BY <2>2, <3>1 DEF IInv, Typed
    <3>4. \A g \in Helpers : pc[g] \in AtVolume => ses[g] # ses[h]
      BY <3>1 DEF IInv, Volumes
    <3>5. \A g \in Helpers : pc[g] \in AtVolume => ses[g] \in Sessions
      BY ThreadsAre DEF IInv, Sharing, AtVolume, InSession
    <3> QED BY <2>2, <3>1, <3>2, <3>3, <3>4, <3>5, ThreadsAre
            DEF IInv, Volumes
  <2> QED BY <1>16, <2>1, <2>2, Zenon DEF MountBig, Goto
<1>17. ASSUME NEW h \in Helpers, SendInit(h)
       PROVE  Volumes'
  BY <1>17, ThreadsAre, SessionsAre, SMTT(60)
  DEF SendInit, Goto, Send, Set, kext, device, locks, mp, thread, IInv,
      Typed, Placed, ProcessPCs, UnmounterPCs, InSession, Last, Holds,
      AtVolume, Volumes, Sharing
<1>18. ASSUME NEW h \in Helpers, InitAnswered(h)
       PROVE  Volumes'
  BY <1>18, ThreadsAre, SessionsAre, SMTT(60)
  DEF InitAnswered, Goto, kext, device, locks, mp, thread, IInv, Typed,
      Placed, ProcessPCs, UnmounterPCs, InSession, Last, Holds, AtVolume,
      Volumes, Sharing
<1>19. ASSUME NEW h \in Helpers, InitFails(h)
       PROVE  Volumes'
  BY <1>19, ThreadsAre, SessionsAre, SMTT(60)
  DEF InitFails, Goto, Ends, Pending, Set, kext, device, locks, mp, thread,
      IInv, Typed, Placed, ProcessPCs, UnmounterPCs, InSession, Last, Holds,
      AtVolume, Volumes, Sharing
<1>20. ASSUME NEW h \in Helpers, Statfs(h)
       PROVE  Volumes'
  BY <1>20, ThreadsAre, SessionsAre, SMTT(60)
  DEF Statfs, Goto, Send, Set, kext, device, locks, mp, thread, IInv, Typed,
      Placed, ProcessPCs, UnmounterPCs, InSession, Last, Holds, AtVolume,
      Volumes, Sharing
<1>21. ASSUME NEW h \in Helpers, StatfsEnds(h)
       PROVE  Volumes'
  BY <1>21, ThreadsAre, SessionsAre, SMTT(60)
  DEF StatfsEnds, Goto, Ends, Pending, Set, kext, device, locks, mp, thread,
      IInv, Typed, Placed, ProcessPCs, UnmounterPCs, InSession, Last, Holds,
      AtVolume, Volumes, Sharing
<1>22. ASSUME NEW h \in Helpers, Root(h)
       PROVE  Volumes'
  BY <1>22, ThreadsAre, SessionsAre, SMTT(60)
  DEF Root, Goto, kext, device, locks, mp, thread, IInv, Typed, Placed,
      ProcessPCs, UnmounterPCs, InSession, Last, Holds, AtVolume, Volumes,
      Sharing
<1>23. ASSUME NEW h \in Helpers, Unwind(h)
       PROVE  Volumes'
  BY <1>23, ThreadsAre, SessionsAre, SMTT(60)
  DEF Unwind, Goto, Uncount, Set, DropBig, kext, device, locks, mp, thread,
      IInv, Typed, Placed, ProcessPCs, UnmounterPCs, InSession, Last, Holds,
      AtVolume, Volumes, Sharing
<1>24. ASSUME NEW h \in Helpers, Finish(h)
       PROVE  Volumes'
  BY <1>24, ThreadsAre, SessionsAre, SMTT(60)
  DEF Finish, Goto, DropBig, kext, device, locks, mp, thread, IInv, Typed,
      Placed, ProcessPCs, UnmounterPCs, InSession, Last, Holds, AtVolume,
      Volumes, Sharing
<1>25. ASSUME NEW h \in Helpers, Signal(h)
       PROVE  Volumes'
  BY <1>25, ThreadsAre, SessionsAre, SMTT(60)
  DEF Signal, Goto, Pending, Set, kext, device, locks, mp, thread, IInv,
      Typed, Placed, ProcessPCs, UnmounterPCs, InSession, Last, Holds,
      AtVolume, Volumes, Sharing
<1>26. CASE Unmount
  BY <1>26, ThreadsAre, SessionsAre, SMTT(60)
  DEF Unmount, Goto, u, kext, device, locks, mp, thread, IInv, Typed, Placed,
      ProcessPCs, UnmounterPCs, InSession, Last, Holds, AtVolume, Volumes,
      Sharing
<1>27. CASE UnmountBegins
  BY <1>27, ThreadsAre, SessionsAre, SMTT(60)
  DEF UnmountBegins, Goto, u, BigFree, SetDead, Set, kext, device, locks, mp,
      thread, IInv, Typed, Placed, ProcessPCs, UnmounterPCs, InSession, Last,
      Holds, AtVolume, Volumes, Sharing
<1>28. CASE UnmountBusy
  BY <1>28, ThreadsAre, SessionsAre, SMTT(60)
  DEF UnmountBusy, Goto, u, BigFree, kext, device, locks, mp, thread, IInv,
      Typed, Placed, ProcessPCs, UnmounterPCs, InSession, Last, Holds,
      AtVolume, Volumes, Sharing
<1>29. CASE UnmountFlushed
  BY <1>29, ThreadsAre, SessionsAre, SMTT(60)
  DEF UnmountFlushed, Goto, u, BigFree, TakeBig, kext, device, locks, mp,
      thread, IInv, Typed, Placed, ProcessPCs, UnmounterPCs, InSession, Last,
      Holds, AtVolume, Volumes, Sharing
<1>30. CASE SendDestroy
  BY <1>30, ThreadsAre, SessionsAre, SMTT(60)
  DEF SendDestroy, Goto, u, Send, Set, kext, device, locks, mp, thread, IInv,
      Typed, Placed, ProcessPCs, UnmounterPCs, InSession, Last, Holds,
      AtVolume, Volumes, Sharing
<1>31. CASE DestroyEnds
  BY <1>31, ThreadsAre, SessionsAre, SMTT(60)
  DEF DestroyEnds, Goto, u, kext, device, locks, mp, thread, IInv, Typed,
      Placed, ProcessPCs, UnmounterPCs, InSession, Last, Holds, AtVolume,
      Volumes, Sharing
<1>32. CASE Release
  BY <1>32, ThreadsAre, SessionsAre, SMTT(60)
  DEF Release, Goto, u, DropBig, kext, device, locks, mp, thread, IInv,
      Typed, Placed, ProcessPCs, UnmounterPCs, InSession, Last, Holds,
      AtVolume, Volumes, Sharing
<1>33. CASE Retake
  BY <1>33, ThreadsAre, SessionsAre, SMTT(60)
  DEF Retake, Goto, u, BigFree, TakeBig, kext, device, locks, mp, thread,
      IInv, Typed, Placed, ProcessPCs, UnmounterPCs, InSession, Last, Holds,
      AtVolume, Volumes, Sharing
<1>34. CASE Unmounted
  BY <1>34, ThreadsAre, SessionsAre, SMTT(60)
  DEF Unmounted, Goto, u, Set, Uncount, DropBig, LeftForClose, kext, device,
      locks, mp, thread, IInv, Typed, Placed, ProcessPCs, UnmounterPCs,
      InSession, Last, Holds, AtVolume, Volumes, Sharing
<1>35. CASE Kill
  BY <1>35, ThreadsAre, SessionsAre, SMTT(60)
  DEF Kill, Cut, kext, device, locks, mp, thread, IInv, Typed, Placed,
      ProcessPCs, UnmounterPCs, InSession, Last, Holds, AtVolume, Volumes,
      Sharing
<1>36. CASE Stop
  BY <1>36, ThreadsAre, SessionsAre, SMTT(60)
  DEF Stop, Goto, kext, device, locks, mp, thread, IInv, Typed, Placed,
      ProcessPCs, UnmounterPCs, InSession, Last, Holds, AtVolume, Volumes,
      Sharing
<1>37. CASE StopDevices
  BY <1>37, ThreadsAre, SessionsAre, SMTT(60)
  DEF StopDevices, Goto, DeviceInUse, InUse, kext, device, locks, mp, thread,
      IInv, Typed, Placed, ProcessPCs, UnmounterPCs, InSession, Last, Holds,
      AtVolume, Volumes, Sharing
<1>38. CASE StopVfs
  BY <1>38, ThreadsAre, SessionsAre, SMTT(60)
  DEF StopVfs, Goto, Mounting, kext, device, locks, mp, thread, IInv, Typed,
      Placed, ProcessPCs, UnmounterPCs, InSession, Last, Holds, AtVolume,
      Volumes, Sharing
<1>39. CASE Start
  BY <1>39, ThreadsAre, SessionsAre, SMTT(60)
  DEF Start, kext, device, locks, mp, thread, IInv, Typed, Placed,
      ProcessPCs, UnmounterPCs, InSession, Last, Holds, AtVolume, Volumes,
      Sharing
<1>40. CASE UnmountUnlock
  BY <1>40, ThreadsAre, SessionsAre, SMTT(60)
  DEF UnmountUnlock, Goto, u, kext, device, locks, mp, thread,
      IInv, Typed, Placed, ProcessPCs, UnmounterPCs, InSession, Last, Holds,
      AtVolume, Volumes, Sharing
<1>41. CASE Dounmount
  BY <1>41, ThreadsAre, SessionsAre, SMTT(60)
  DEF Dounmount, Goto, u, kext, device, locks, mp, thread,
      IInv, Typed, Placed, ProcessPCs, UnmounterPCs, InSession, Last, Holds,
      AtVolume, Volumes, Sharing
<1> QED BY <1>1, <1>2, <1>3, <1>4, <1>5, <1>6, <1>7, <1>8, <1>9, <1>10, <1>11,
     <1>12, <1>13, <1>14, <1>15, <1>16, <1>17, <1>18, <1>19, <1>20, <1>21,
     <1>22, <1>23, <1>24, <1>25, <1>26, <1>27, <1>28, <1>29, <1>30, <1>31,
     <1>32, <1>33, <1>34, <1>35, <1>36, <1>37, <1>38, <1>39, <1>40, <1>41
  DEF Next, Opening, Closing, Mount, Unmounting

(* fuse_mount_count is in step with the mount points.                      *)
LEMMA CountedStep ==
  ASSUME IInv, Next
  PROVE  Counted'
<1>1. ASSUME NEW d \in Daemons, Open(d)
      PROVE  Counted'
  <2>1. mounts' = mounts
    BY <1>1, Zenon DEF Open, mp
  <2>2. \A s \in Sessions : volume'[s] # "none" <=> volume[s] # "none"
    <3>1. volume' = volume
      BY <1>1, Zenon DEF Open, mp
    <3> QED BY <3>1
  <2> QED BY <2>1, <2>2, CountKept DEF IInv
<1>2. ASSUME NEW d \in Daemons, OpenGlobal(d)
      PROVE  Counted'
  <2>1. mounts' = mounts
    BY <1>2, Zenon DEF OpenGlobal, mp
  <2>2. \A s \in Sessions : volume'[s] # "none" <=> volume[s] # "none"
    <3>1. volume' = volume
      BY <1>2, Zenon DEF OpenGlobal, mp
    <3> QED BY <3>1
  <2> QED BY <2>1, <2>2, CountKept DEF IInv
<1>3. ASSUME NEW d \in Daemons, OpenStopped(d)
      PROVE  Counted'
  <2>1. mounts' = mounts
    BY <1>3, Zenon DEF OpenStopped, mp
  <2>2. \A s \in Sessions : volume'[s] # "none" <=> volume[s] # "none"
    <3>1. volume' = volume
      BY <1>3, Zenon DEF OpenStopped, mp
    <3> QED BY <3>1
  <2> QED BY <2>1, <2>2, CountKept DEF IInv
<1>4. ASSUME NEW d \in Daemons, OpenLocal(d)
      PROVE  Counted'
  <2>1. mounts' = mounts
    BY <1>4, Zenon DEF OpenLocal, mp
  <2>2. \A s \in Sessions : volume'[s] # "none" <=> volume[s] # "none"
    <3>1. volume' = volume
      BY <1>4, Zenon DEF OpenLocal, mp
    <3> QED BY <3>1
  <2> QED BY <2>1, <2>2, CountKept DEF IInv
<1>5. ASSUME NEW d \in Daemons, OpenAlloc(d)
      PROVE  Counted'
  <2>1. mounts' = mounts
    BY <1>5, Zenon DEF OpenAlloc, mp
  <2>2. \A s \in Sessions : volume'[s] # "none" <=> volume[s] # "none"
    <3>1. volume' = volume
      BY <1>5, Zenon DEF OpenAlloc, mp
    <3> QED BY <3>1
  <2> QED BY <2>1, <2>2, CountKept DEF IInv
<1>6. ASSUME NEW d \in Daemons, OpenBusy(d)
      PROVE  Counted'
  <2>1. mounts' = mounts
    BY <1>6, Zenon DEF OpenBusy, mp
  <2>2. \A s \in Sessions : volume'[s] # "none" <=> volume[s] # "none"
    <3>1. volume' = volume
      BY <1>6, Zenon DEF OpenBusy, mp
    <3> QED BY <3>1
  <2> QED BY <2>1, <2>2, CountKept DEF IInv
<1>7. ASSUME NEW d \in Daemons, Read(d)
      PROVE  Counted'
  <2>1. mounts' = mounts
    BY <1>7, Zenon DEF Read, mp
  <2>2. \A s \in Sessions : volume'[s] # "none" <=> volume[s] # "none"
    <3>1. volume' = volume
      BY <1>7, Zenon DEF Read, mp
    <3> QED BY <3>1
  <2> QED BY <2>1, <2>2, CountKept DEF IInv
<1>8. ASSUME NEW d \in Daemons, Reply(d)
      PROVE  Counted'
  <2>1. mounts' = mounts
    BY <1>8, Zenon DEF Reply, mp
  <2>2. \A s \in Sessions : volume'[s] # "none" <=> volume[s] # "none"
    <3>1. volume' = volume
      BY <1>8, Zenon DEF Reply, mp
    <3> QED BY <3>1
  <2> QED BY <2>1, <2>2, CountKept DEF IInv
<1>9. ASSUME NEW d \in Daemons, NEW h \in Helpers, Fork(d, h)
      PROVE  Counted'
  <2>1. mounts' = mounts
    BY <1>9, Zenon DEF Fork, mp
  <2>2. \A s \in Sessions : volume'[s] # "none" <=> volume[s] # "none"
    <3>1. volume' = volume
      BY <1>9, Zenon DEF Fork, mp
    <3> QED BY <3>1
  <2> QED BY <2>1, <2>2, CountKept DEF IInv
<1>10. ASSUME NEW p \in Processes, Exit(p)
       PROVE  Counted'
  <2>1. mounts' = mounts
    BY <1>10, Zenon DEF Exit, mp
  <2>2. \A s \in Sessions : volume'[s] # "none" <=> volume[s] # "none"
    <3>1. volume' = volume
      BY <1>10, Zenon DEF Exit, mp
    <3> QED BY <3>1
  <2> QED BY <2>1, <2>2, CountKept DEF IInv
<1>11. ASSUME NEW p \in Processes, Close(p)
       PROVE  Counted'
  <2>1. mounts' = mounts
    BY <1>11, Zenon DEF Close, mp
  <2>2. \A s \in Sessions : volume'[s] # "none" <=> volume[s] # "none"
    <3>1. volume' = volume
      BY <1>11, Zenon DEF Close, mp
    <3> QED BY <3>1
  <2> QED BY <2>1, <2>2, CountKept DEF IInv
<1>12. ASSUME NEW p \in Processes, CloseLocal(p)
       PROVE  Counted'
  <2>1. mounts' = mounts
    BY <1>12, Zenon DEF CloseLocal, mp
  <2>2. \A s \in Sessions : volume'[s] # "none" <=> volume[s] # "none"
    <3>1. volume' = volume
      BY <1>12, Zenon DEF CloseLocal, mp
    <3> QED BY <3>1
  <2> QED BY <2>1, <2>2, CountKept DEF IInv
<1>13. ASSUME NEW p \in Processes, CloseUse(p)
       PROVE  Counted'
  <2>1. mounts' = mounts
    BY <1>13, Zenon DEF CloseUse, mp
  <2>2. \A s \in Sessions : volume'[s] # "none" <=> volume[s] # "none"
    <3>1. volume' = volume
      BY <1>13, Zenon DEF CloseUse, mp
    <3> QED BY <3>1
  <2> QED BY <2>1, <2>2, CountKept DEF IInv
<1>14. ASSUME NEW p \in Processes, SetDaemonDead(p)
       PROVE  Counted'
  <2>1. mounts' = mounts
    BY <1>14, Zenon DEF SetDaemonDead, mp
  <2>2. \A s \in Sessions : volume'[s] # "none" <=> volume[s] # "none"
    <3>1. volume' = volume
      BY <1>14, Zenon DEF SetDaemonDead, mp
    <3> QED BY <3>1
  <2> QED BY <2>1, <2>2, CountKept DEF IInv
<1>15. ASSUME NEW h \in Helpers, MountLocal(h)
       PROVE  Counted'
  <2>1. mounts' = mounts
    BY <1>15, Zenon DEF MountLocal, mp
  <2>2. \A s \in Sessions : volume'[s] # "none" <=> volume[s] # "none"
    <3>1. volume' = volume
      BY <1>15, Zenon DEF MountLocal, mp
    <3> QED BY <3>1
  <2> QED BY <2>1, <2>2, CountKept DEF IInv
<1>16. ASSUME NEW h \in Helpers, MountBig(h)
       PROVE  Counted'
  <2>1. ses[h] \in Sessions
    BY <1>16, ThreadsAre DEF MountBig, Goto, IInv, Sharing, InSession
  <2>2. CASE mp' = mp
    BY <2>2, CountKept DEF mp, IInv
  <2>3. CASE /\ ~sess[ses[h]].mounted /\ mounts' = mounts + 1
             /\ volume' = [volume EXCEPT ![ses[h]] = "mounting"]
    <3>1. volume[ses[h]] = "none"
      BY <2>1, <2>3 DEF IInv, MountPoints
    <3> QED BY <2>1, <2>3, <3>1, CountMore DEF IInv, Typed
  <2> QED BY <1>16, <2>2, <2>3, Zenon DEF MountBig, mp
<1>17. ASSUME NEW h \in Helpers, SendInit(h)
       PROVE  Counted'
  <2>1. mounts' = mounts
    BY <1>17, Zenon DEF SendInit, mp
  <2>2. \A s \in Sessions : volume'[s] # "none" <=> volume[s] # "none"
    <3>1. volume' = volume
      BY <1>17, Zenon DEF SendInit, mp
    <3> QED BY <3>1
  <2> QED BY <2>1, <2>2, CountKept DEF IInv
<1>18. ASSUME NEW h \in Helpers, InitAnswered(h)
       PROVE  Counted'
  <2>1. mounts' = mounts
    BY <1>18, Zenon DEF InitAnswered, mp
  <2>2. \A s \in Sessions : volume'[s] # "none" <=> volume[s] # "none"
    <3>1. volume' = volume
      BY <1>18, Zenon DEF InitAnswered, mp
    <3> QED BY <3>1
  <2> QED BY <2>1, <2>2, CountKept DEF IInv
<1>19. ASSUME NEW h \in Helpers, InitFails(h)
       PROVE  Counted'
  <2>1. mounts' = mounts
    BY <1>19, Zenon DEF InitFails, mp
  <2>2. \A s \in Sessions : volume'[s] # "none" <=> volume[s] # "none"
    <3>1. volume' = volume
      BY <1>19, Zenon DEF InitFails, mp
    <3> QED BY <3>1
  <2> QED BY <2>1, <2>2, CountKept DEF IInv
<1>20. ASSUME NEW h \in Helpers, Statfs(h)
       PROVE  Counted'
  <2>1. mounts' = mounts
    BY <1>20, Zenon DEF Statfs, mp
  <2>2. \A s \in Sessions : volume'[s] # "none" <=> volume[s] # "none"
    <3>1. volume' = volume
      BY <1>20, Zenon DEF Statfs, mp
    <3> QED BY <3>1
  <2> QED BY <2>1, <2>2, CountKept DEF IInv
<1>21. ASSUME NEW h \in Helpers, StatfsEnds(h)
       PROVE  Counted'
  <2>1. mounts' = mounts
    BY <1>21, Zenon DEF StatfsEnds, mp
  <2>2. \A s \in Sessions : volume'[s] # "none" <=> volume[s] # "none"
    <3>1. volume' = volume
      BY <1>21, Zenon DEF StatfsEnds, mp
    <3> QED BY <3>1
  <2> QED BY <2>1, <2>2, CountKept DEF IInv
<1>22. ASSUME NEW h \in Helpers, Root(h)
       PROVE  Counted'
  <2>1. mounts' = mounts
    BY <1>22, Zenon DEF Root, mp
  <2>2. \A s \in Sessions : volume'[s] # "none" <=> volume[s] # "none"
    <3>1. volume' = volume
      BY <1>22, Zenon DEF Root, mp
    <3> QED BY <3>1
  <2> QED BY <2>1, <2>2, CountKept DEF IInv
<1>23. ASSUME NEW h \in Helpers, Unwind(h)
       PROVE  Counted'
  <2>1. ses[h] \in Sessions /\ volume[ses[h]] # "none"
    BY <1>23, ThreadsAre
    DEF Unwind, Goto, IInv, Sharing, InSession, Volumes, AtVolume
  <2>2. /\ mounts' = mounts - 1
        /\ volume' = [volume EXCEPT ![ses[h]] = "none"]
    BY <1>23 DEF Unwind, Uncount
  <2> QED BY <2>1, <2>2, CountLess DEF IInv, Typed
<1>24. ASSUME NEW h \in Helpers, Finish(h)
       PROVE  Counted'
  <2>1. mounts' = mounts
    BY <1>24, Zenon DEF Finish, mp
  <2>2. \A s \in Sessions : volume'[s] # "none" <=> volume[s] # "none"
    BY <1>24, ThreadsAre
    DEF Finish, Goto, IInv, Typed, Volumes, AtVolume, InSession, Sharing
  <2> QED BY <2>1, <2>2, CountKept DEF IInv
<1>25. ASSUME NEW h \in Helpers, Signal(h)
       PROVE  Counted'
  <2>1. mounts' = mounts
    BY <1>25, Zenon DEF Signal, mp
  <2>2. \A s \in Sessions : volume'[s] # "none" <=> volume[s] # "none"
    <3>1. volume' = volume
      BY <1>25, Zenon DEF Signal, mp
    <3> QED BY <3>1
  <2> QED BY <2>1, <2>2, CountKept DEF IInv
<1>26. CASE Unmount
  <2>1. mounts' = mounts
    BY <1>26, Zenon DEF Unmount, mp
  <2>2. \A s \in Sessions : volume'[s] # "none" <=> volume[s] # "none"
    BY <1>26, ThreadsAre
    DEF Unmount, u, Goto, IInv, Typed, Volumes, AtVolume
  <2> QED BY <2>1, <2>2, CountKept DEF IInv
<1>27. CASE UnmountBegins
  <2>1. mounts' = mounts
    BY <1>27, Zenon DEF UnmountBegins, mp
  <2>2. \A s \in Sessions : volume'[s] # "none" <=> volume[s] # "none"
    <3>1. volume' = volume
      BY <1>27, Zenon DEF UnmountBegins, mp
    <3> QED BY <3>1
  <2> QED BY <2>1, <2>2, CountKept DEF IInv
<1>28. CASE UnmountBusy
  <2>1. mounts' = mounts
    BY <1>28, Zenon DEF UnmountBusy, mp
  <2>2. \A s \in Sessions : volume'[s] # "none" <=> volume[s] # "none"
    BY <1>28, ThreadsAre
    DEF UnmountBusy, u, Goto, IInv, Typed, Volumes, AtVolume
  <2> QED BY <2>1, <2>2, CountKept DEF IInv
<1>29. CASE UnmountFlushed
  <2>1. mounts' = mounts
    BY <1>29, Zenon DEF UnmountFlushed, mp
  <2>2. \A s \in Sessions : volume'[s] # "none" <=> volume[s] # "none"
    <3>1. volume' = volume
      BY <1>29, Zenon DEF UnmountFlushed, mp
    <3> QED BY <3>1
  <2> QED BY <2>1, <2>2, CountKept DEF IInv
<1>30. CASE SendDestroy
  <2>1. mounts' = mounts
    BY <1>30, Zenon DEF SendDestroy, mp
  <2>2. \A s \in Sessions : volume'[s] # "none" <=> volume[s] # "none"
    <3>1. volume' = volume
      BY <1>30, Zenon DEF SendDestroy, mp
    <3> QED BY <3>1
  <2> QED BY <2>1, <2>2, CountKept DEF IInv
<1>31. CASE DestroyEnds
  <2>1. mounts' = mounts
    BY <1>31, Zenon DEF DestroyEnds, mp
  <2>2. \A s \in Sessions : volume'[s] # "none" <=> volume[s] # "none"
    <3>1. volume' = volume
      BY <1>31, Zenon DEF DestroyEnds, mp
    <3> QED BY <3>1
  <2> QED BY <2>1, <2>2, CountKept DEF IInv
<1>32. CASE Release
  <2>1. mounts' = mounts
    BY <1>32, Zenon DEF Release, mp
  <2>2. \A s \in Sessions : volume'[s] # "none" <=> volume[s] # "none"
    <3>1. volume' = volume
      BY <1>32, Zenon DEF Release, mp
    <3> QED BY <3>1
  <2> QED BY <2>1, <2>2, CountKept DEF IInv
<1>33. CASE Retake
  <2>1. mounts' = mounts
    BY <1>33, Zenon DEF Retake, mp
  <2>2. \A s \in Sessions : volume'[s] # "none" <=> volume[s] # "none"
    <3>1. volume' = volume
      BY <1>33, Zenon DEF Retake, mp
    <3> QED BY <3>1
  <2> QED BY <2>1, <2>2, CountKept DEF IInv
<1>34. CASE Unmounted
  <2>1. ses[u] \in Sessions /\ volume[ses[u]] # "none"
    BY <1>34 DEF Unmounted, Goto, u, IInv, Volumes
  <2>2. /\ mounts' = mounts - 1
        /\ volume' = [volume EXCEPT ![ses[u]] = "none"]
    BY <1>34 DEF Unmounted, Uncount
  <2> QED BY <2>1, <2>2, CountLess DEF IInv, Typed
<1>35. CASE Kill
  <2>1. mounts' = mounts
    BY <1>35, Zenon DEF Kill, mp
  <2>2. \A s \in Sessions : volume'[s] # "none" <=> volume[s] # "none"
    <3>1. volume' = volume
      BY <1>35, Zenon DEF Kill, mp
    <3> QED BY <3>1
  <2> QED BY <2>1, <2>2, CountKept DEF IInv
<1>36. CASE Stop
  <2>1. mounts' = mounts
    BY <1>36, Zenon DEF Stop, mp
  <2>2. \A s \in Sessions : volume'[s] # "none" <=> volume[s] # "none"
    <3>1. volume' = volume
      BY <1>36, Zenon DEF Stop, mp
    <3> QED BY <3>1
  <2> QED BY <2>1, <2>2, CountKept DEF IInv
<1>37. CASE StopDevices
  <2>1. mounts' = mounts
    BY <1>37, Zenon DEF StopDevices, mp
  <2>2. \A s \in Sessions : volume'[s] # "none" <=> volume[s] # "none"
    <3>1. volume' = volume
      BY <1>37, Zenon DEF StopDevices, mp
    <3> QED BY <3>1
  <2> QED BY <2>1, <2>2, CountKept DEF IInv
<1>38. CASE StopVfs
  <2>1. mounts' = mounts
    BY <1>38, Zenon DEF StopVfs, mp
  <2>2. \A s \in Sessions : volume'[s] # "none" <=> volume[s] # "none"
    <3>1. volume' = volume
      BY <1>38, Zenon DEF StopVfs, mp
    <3> QED BY <3>1
  <2> QED BY <2>1, <2>2, CountKept DEF IInv
<1>39. CASE Start
  <2>1. mounts' = mounts
    BY <1>39, Zenon DEF Start, mp
  <2>2. \A s \in Sessions : volume'[s] # "none" <=> volume[s] # "none"
    <3>1. volume' = volume
      BY <1>39, Zenon DEF Start, mp
    <3> QED BY <3>1
  <2> QED BY <2>1, <2>2, CountKept DEF IInv
<1>40. CASE UnmountUnlock
  <2>1. mounts' = mounts
    BY <1>40, Zenon DEF UnmountUnlock, mp
  <2>2. \A s \in Sessions : volume'[s] # "none" <=> volume[s] # "none"
    <3>1. volume' = volume
      BY <1>40, Zenon DEF UnmountUnlock, mp
    <3> QED BY <3>1
  <2> QED BY <2>1, <2>2, CountKept DEF IInv
<1>41. CASE Dounmount
  <2>1. mounts' = mounts
    BY <1>41, Zenon DEF Dounmount, mp
  <2>2. \A s \in Sessions : volume'[s] # "none" <=> volume[s] # "none"
    <3>1. volume' = volume
      BY <1>41, Zenon DEF Dounmount, mp
    <3> QED BY <3>1
  <2> QED BY <2>1, <2>2, CountKept DEF IInv
<1> QED BY <1>1, <1>2, <1>3, <1>4, <1>5, <1>6, <1>7, <1>8, <1>9, <1>10, <1>11,
     <1>12, <1>13, <1>14, <1>15, <1>16, <1>17, <1>18, <1>19, <1>20, <1>21,
     <1>22, <1>23, <1>24, <1>25, <1>26, <1>27, <1>28, <1>29, <1>30, <1>31,
     <1>32, <1>33, <1>34, <1>35, <1>36, <1>37, <1>38, <1>39, <1>40, <1>41
  DEF Next, Opening, Closing, Mount, Unmounting

-----------------------------------------------------------------------------
(* The invariant holds when the kernel extension has been loaded ...       *)
THEOREM InvariantInit == Init => IInv
<1> SUFFICES ASSUME Init
             PROVE  IInv
  OBVIOUS
<1>1. Typed
  <2>1. NoData \in Data
    <3>1. 0 \in 0..MaxMounts
      BY SessionAssumption
    <3> QED BY <3>1 DEF NoData, Data
  <2> QED BY <2>1 DEF Init, Typed
<1>2. Made = {} /\ Mounted = {}
  BY DEF Init, Made, Mounted, NoData
<1>3. OneSession
  <2>1. Cardinality(Made) = 0 /\ Made = 1..0
    BY <1>2, FS_EmptySet
  <2> QED BY <1>2, <2>1, SessionsAre DEF Init, OneSession, NoData
<1>4. Counted
  BY <1>2, FS_EmptySet DEF Init, Counted
<1>5. Placed /\ Sharing /\ Exclusive
  BY ThreadsAre
  DEF Init, Placed, ProcessPCs, UnmounterPCs, UnloaderPCs, InSession, Last,
      Holds, Sharing, Exclusive
<1>6. OpenedUntilClosed /\ MountPoints
  BY ThreadsAre DEF Init, OpenedUntilClosed, MountPoints, Last, NoData
<1>7. Volumes /\ Stopping
  BY ThreadsAre DEF Init, Volumes, AtVolume, Stopping
<1> QED BY <1>1, <1>3, <1>4, <1>5, <1>6, <1>7 DEF IInv

(* ... every step keeps it ...                                             *)
THEOREM InvariantStep == IInv /\ [Next]_vars => IInv'
<1> SUFFICES ASSUME IInv, [Next]_vars
             PROVE  IInv'
  OBVIOUS
<1>1. CASE Next
  BY <1>1, TypedStep, PlacedStep, SharingStep, ExclusiveStep, OpenedStep,
     OneSessionStep, VolumesStep, CountedStep, StoppingStep, Zenon DEF IInv
<1>2. CASE UNCHANGED vars
  <2> USE <1>2 DEF vars, kext, device, locks, mp, thread, IInv
  <2>1. Made' = Made /\ Mounted' = Mounted
    BY DEF Made, Mounted
  <2>2. Typed' /\ Placed' /\ Sharing'
    BY DEF Typed, Placed, Sharing
  <2>3. Exclusive' /\ OpenedUntilClosed'
    BY DEF Exclusive, OpenedUntilClosed
  <2>4. OneSession' /\ MountPoints' /\ Counted'
    BY <2>1 DEF OneSession, MountPoints, Counted
  <2>5. Volumes' /\ Stopping'
    BY DEF Volumes, Stopping
  <2> QED BY <2>2, <2>3, <2>4, <2>5
<1> QED BY <1>1, <1>2

(* ... and so it holds throughout.                                         *)
THEOREM InvariantHolds == Spec => []IInv
BY InvariantInit, InvariantStep, PTL DEF Spec

(* Every variable keeps its type for any number of processes and sessions. *)
THEOREM TypesHold == Spec => []TypeOK
<1>1. IInv => TypeOK
  <2> SUFFICES ASSUME IInv
               PROVE  TypeOK
    OBVIOUS
  <2>1. mounts \in Nat
    <3>1. IsFiniteSet(Mounted)
      BY SessionsAre, FS_Subset DEF Mounted
    <3> QED BY <3>1, FS_CardinalityType DEF IInv, Counted
  <2> QED BY <2>1, SessionsAre DEF IInv, Typed, Data, TypeOK
<1> QED BY <1>1, InvariantHolds, PTL

(* None of the daemon's, the helpers' or the unmounter's threads finds its *)
(* session destroyed, whatever the order in which they come.               *)
THEOREM SessionsOutliveTheirUsers == Spec => []NoUseAfterDestroy
<1>1. IInv => NoUseAfterDestroy
  <2> SUFFICES ASSUME IInv, NEW t \in Threads, Uses(t)
               PROVE  ses[t] \notin destroyed
    BY DEF NoUseAfterDestroy
  <2>1. PICK s : s = ses[t]
    OBVIOUS
  <2>2. s \in Sessions => sess[s].opened \/ sess[s].mounted
    <3>1. CASE t \in Processes
      <4>1. pc[t] \in InSession \/ pc[t] \in Last
        BY <3>1, ThreadsAre DEF Uses, InSession, Last
      <4>2. CASE pc[t] \in InSession
        BY <2>1, <3>1, <4>2 DEF IInv, Sharing, OpenedUntilClosed
      <4>3. CASE pc[t] \in Last
        BY <2>1, <3>1, <4>3 DEF IInv, OpenedUntilClosed
      <4> QED BY <4>1, <4>2, <4>3
    <3>2. CASE t = Unmounter
      BY <2>1, <3>2
      DEF Uses, Away, IInv, Placed, UnmounterPCs, Volumes, MountPoints
    <3>3. CASE t = Unloader
      BY <3>3, ThreadsAre DEF Uses, IInv, Placed, UnloaderPCs
    <3> QED BY <3>1, <3>2, <3>3 DEF Threads
  <2>3. CASE s \in Sessions
    BY <2>1, <2>2, <2>3 DEF IInv, OneSession
  <2>4. CASE s \notin Sessions
    BY <2>1, <2>4 DEF IInv, Typed
  <2> QED BY <2>3, <2>4
<1> QED BY <1>1, InvariantHolds, PTL

(* And one of them destroys it: what is neither open nor mounted is gone,  *)
(* and the device has what is left.                                        *)
THEOREM SessionsAreFreed == Spec => []NoSessionLeak
<1>1. IInv => NoSessionLeak
  BY DEF IInv, OneSession, NoSessionLeak, Made
<1> QED BY <1>1, InvariantHolds, PTL

(* Once fusefs_stop has freed the devices every session is destroyed, no   *)
(* process has one open, and only an unmount that is done with its session *)
(* is still in the extension; that one, too, returns before the file system*)
(* is stopped.                                                             *)
THEOREM StopComesLast == Spec => []NothingOutlivesStop
<1>1. IInv => NothingOutlivesStop
  <2> SUFFICES ASSUME IInv
               PROVE  NothingOutlivesStop
    OBVIOUS
  <2>1. ASSUME installed # "yes"
        PROVE  Made = destroyed
    <3>1. data = NULL /\ destroyed \subseteq Sessions
      BY <2>1 DEF IInv, Stopping, Typed
    <3>2. \A s \in Sessions : s \in destroyed <=> s \in Made /\ data # s
      BY DEF IInv, OneSession
    <3> QED BY <3>1, <3>2, SessionsAre DEF Made
  <2>2. ASSUME installed # "yes"
        PROVE  pc[Unmounter] \in Away
    <3>1. data = NULL
      BY <2>2 DEF IInv, Stopping
    <3>2. \A s \in Sessions : ~sess[s].mounted
      BY <3>1, SessionsAre DEF IInv, OneSession
    <3> QED BY <3>2
        DEF IInv, Placed, UnmounterPCs, Volumes, MountPoints, Away
  <2>3. ASSUME installed # "yes", NEW p \in Processes
        PROVE  pc[p] \in {"idle", "open", "crashed"}
    <3>1. usecount # 1
      BY <2>3 DEF IInv, Stopping
    <3>2. pc[p] \notin Holds
      BY <3>1 DEF IInv, Exclusive
    <3>3. pc[p] \notin InSession
      BY <3>1 DEF IInv, Exclusive, Sharing
    <3> QED BY <3>2, <3>3 DEF IInv, Placed, ProcessPCs
  <2>4. installed = "no" => pc[Unmounter] = "idle"
    BY DEF IInv, Stopping
  <2> QED BY <2>1, <2>2, <2>3, <2>4 DEF NothingOutlivesStop
<1> QED BY <1>1, InvariantHolds, PTL

=============================================================================
