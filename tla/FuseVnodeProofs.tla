--------------------------- MODULE FuseVnodeProofs ---------------------------
(***************************************************************************)
(* Proofs about FuseVnode.                                                 *)
(*                                                                         *)
(* The inductive invariant has two parts. TypeInv bounds the use counts and*)
(* the lookups, for any threads. HandleInv ties the handles of the vnode to*)
(* the daemon's open files and to the programs: a use count is at least the*)
(* number of programs that have the file open in its mode and of the       *)
(* mappings it serves (Counted), while a file is in the making its         *)
(* creator's handle is the only one (InTheMaking), and every handle the    *)
(* daemon has open is in the vnode or was lost to the death of the session *)
(* (OneReleasePerOpen).                                                    *)
(*                                                                         *)
(* HandleInv needs OneCreator, that one thread at most creates the file,   *)
(* and the theorems that rest on it say so. With two it is false: CREATE is*)
(* sent without O_EXCL, so both may succeed, and the second overwrites the *)
(* handle that the first has stashed for its open.                         *)
(***************************************************************************)
EXTENDS FuseVnode, FiniteSetTheorems, TLAPS

(* Who counts for the use count of the handle of a mode: the threads that  *)
(* have the file open in it.  After the death of the session a close gives *)
(* nothing back.                                                           *)
Openers(ty) == {t \in Threads : file[t] = ty}

Users(ty) == IF dead THEN Threads ELSE Openers(ty)

CountsBounded ==
  \A ty \in Types : fufh[ty].count <= MaxUses + Cardinality(Users(ty))

PCs == {"idle", "missing", "found", "created", "asleep", "open", "preflight",
        "panic", "dead"}

(* The types, but for the bound of the counts.                             *)
Typed ==
  /\ exists \in BOOLEAN /\ opened \subseteq Handles /\ dead \in BOOLEAN
  /\ known \in 0..MaxKnown /\ forgets \in Nat /\ nlookup \in Nat
  /\ live \in BOOLEAN /\ active \in BOOLEAN
  /\ fufh \in [Types -> [count : Nat, fh : Handles \cup {NoOne}]]
  /\ creator \in Threads \cup {NoOne}
  /\ node \in Threads \cup {NoOne} /\ big \in Threads \cup {NoOne}
  /\ lost \subseteq Handles
  /\ pc \in [Threads -> PCs]
  /\ file \in [Threads -> OpenTypes \cup {NoOne}]
  /\ map \in [Threads -> Types \cup {NoOne}]

(* Where a thread is says whether it has the file open.                    *)
Placed ==
  \A t \in Threads :
    /\ file[t] # NoOne => pc[t] \in {"open", "preflight", "panic", "dead"}
    /\ pc[t] \in {"open", "preflight"} => file[t] # NoOne
    /\ pc[t] = "preflight" => map[t] # NoOne
    /\ pc[t] = "dead" => dead
    /\ pc[t] \in {"asleep", "panic"} => big = t

TypeInv == Typed /\ Placed /\ CountsBounded /\ NeverOverForgotten

(* A file the daemon does not have is known to nobody.                     *)
Nonexistent ==
  ~exists => /\ opened = {} /\ lost = {} /\ ~live /\ ~active
             /\ \A ty \in Types : ~Valid(ty)
             /\ \A t \in Threads : pc[t] \in {"idle", "missing", "dead"}
                                   /\ map[t] = NoOne

(* While a file is in the making, its creator's handle is the only one.    *)
InTheMaking ==
  creator # NoOne =>
    /\ exists /\ live /\ ~active /\ Valid("RDWR")
    /\ \A ty \in Types \ {"RDWR"} : ~Valid(ty)
    /\ \A t \in Threads : /\ pc[t] \in {"idle", "missing", "found", "created",
                                       "asleep", "dead"}
                          /\ file[t] = NoOne /\ map[t] = NoOne

Making ==
  /\ \A t \in Threads : pc[t] \in {"missing", "created"} => t \in Creators
  /\ \A t \in Threads : pc[t] = "missing" => ~exists

Mappers(ty) ==
  {t \in Threads : map[t] = ty /\ pc[t] \notin {"preflight", "panic"}}

Counted ==
  \A ty \in Types :
    fufh[ty].count >= Cardinality(Openers(ty)) + Cardinality(Mappers(ty))

PanicValid == \A t \in Threads : pc[t] = "panic" => Valid(map[t])

HandleInv ==
  /\ Making /\ Nonexistent /\ InTheMaking /\ lost \subseteq opened
  /\ OneReleasePerOpen /\ (~dead => Counted /\ PanicValid)

OneCreator == \A s, t \in Creators : s = t

IInv == TypeInv /\ (OneCreator => HandleInv)

-----------------------------------------------------------------------------
(* What the parts of the actions do.                                       *)

(* A new handle is not one the daemon has open.                            *)
LEMMA FreshIsNew ==
  ASSUME Handles \ opened # {}
  PROVE  Fresh \in Handles /\ Fresh \notin opened
BY DEF Fresh

(* So is the vnode of a file that was created.                             *)
LEMMA CreatedTyped ==
  ASSUME Typed, NEW who \in Threads \cup {NoOne}, Created(who)
  PROVE  /\ live' \in BOOLEAN /\ active' \in BOOLEAN
         /\ creator' \in Threads \cup {NoOne}
BY Zenon DEF Typed, Created

(* The handles and who uses them.                                          *)
HandlesTyped ==
  /\ opened \subseteq Handles /\ lost \subseteq Handles
  /\ fufh \in [Types -> [count : Nat, fh : Handles \cup {NoOne}]]

(* What an OPEN or CREATE and the answer to it leave is typed ...          *)
LEMMA GetTyped ==
  ASSUME Typed, NEW ty, Get(ty), lost' = lost
  PROVE  HandlesTyped'
<1>1. Fresh \in Handles /\ opened' \subseteq Handles
  BY FreshIsNew DEF Typed, Get, Opened
<1>2. fufh' = [fufh EXCEPT ![ty] = [count |-> 1, fh |-> Fresh]]
  BY DEF Get
<1>3. CASE ty \in Types
  BY <1>1, <1>2, <1>3 DEF Typed, HandlesTyped
<1>4. CASE ty \notin Types
  <2>1. fufh' = fufh
    BY <1>2, <1>4 DEF Typed
  <2> QED BY <1>1, <2>1 DEF Typed, HandlesTyped
<1> QED BY <1>3, <1>4

(* ... so is what one that is cut off leaves ...                           *)
LEMMA CutTyped ==
  ASSUME Typed, GetCut
  PROVE  HandlesTyped'
BY FreshIsNew DEF Typed, HandlesTyped, GetCut, Opened

(* ... and a vnode without handles.                                        *)
LEMMA ResetTyped ==
  ASSUME Typed, NEW S, Put(S), Reset, lost' = lost
  PROVE  HandlesTyped'
<1>1. fufh' \in [Types -> [count : Nat, fh : Handles \cup {NoOne}]]
  BY DEF Typed, Reset
<1>2. opened' \subseteq Handles
  BY DEF Typed, Put
<1> QED BY <1>1, <1>2 DEF Typed, HandlesTyped

(* The types, from those of the handles and of the rest.                   *)
LEMMA RestTyped ==
  ASSUME HandlesTyped', exists' \in BOOLEAN, dead' \in BOOLEAN,
         live' \in BOOLEAN, active' \in BOOLEAN,
         creator' \in Threads \cup {NoOne},
         known' \in 0..MaxKnown, forgets' \in Nat, nlookup' \in Nat,
         node' \in Threads \cup {NoOne}, big' \in Threads \cup {NoOne},
         pc' \in [Threads -> PCs],
         file' \in [Threads -> OpenTypes \cup {NoOne}],
         map' \in [Threads -> Types \cup {NoOne}]
  PROVE  Typed'
BY DEF Typed, HandlesTyped

(* A set that has grown by one element at most.                            *)
LEMMA GrowsByOne ==
  ASSUME NEW S, IsFiniteSet(S), NEW T, NEW t, T \subseteq S \cup {t}
  PROVE  Cardinality(T) <= Cardinality(S) + 1
<1>1. IsFiniteSet(S \cup {t}) /\ Cardinality(S) \in Nat
  BY FS_AddElement, FS_CardinalityType
<1>2. Cardinality(S \cup {t}) = Cardinality(S) \/
      Cardinality(S \cup {t}) = Cardinality(S) + 1
  BY FS_AddElement
<1>3. IsFiniteSet(T) /\ Cardinality(T) <= Cardinality(S \cup {t})
  BY <1>1, FS_Subset
<1>4. Cardinality(T) \in Nat
  BY <1>3, FS_CardinalityType
<1> QED BY <1>1, <1>2, <1>3, <1>4

(* The counts stay bounded when what changes them is matched by a user.    *)
NotOverused(ty) ==
  \/ fufh'[ty].count <= MaxUses
  \/ /\ fufh'[ty].count <= fufh[ty].count
     /\ Users(ty) \subseteq Users(ty)'
  \/ /\ fufh'[ty].count <= fufh[ty].count + 1
     /\ \E t \in Threads \ Users(ty) : Users(ty)' = Users(ty) \cup {t}
  \/ /\ fufh'[ty].count = fufh[ty].count - 1
     /\ \E t : Users(ty)' = Users(ty) \ {t}

(* What NotOverused says of every mode keeps the counts bounded.           *)
LEMMA BoundKept ==
  ASSUME Typed, Typed', CountsBounded,
         \A ty \in Types : NotOverused(ty)
  PROVE  CountsBounded'
<1> SUFFICES ASSUME NEW ty \in Types
             PROVE  fufh'[ty].count <= MaxUses + Cardinality(Users(ty)')
  BY DEF CountsBounded
<1> DEFINE U == Users(ty)
<1>1. IsFiniteSet(U) /\ IsFiniteSet(U')
  BY FS_Subset, VnodeAssumption DEF Users, Openers
<1>2. Cardinality(U) \in Nat /\ Cardinality(U') \in Nat /\ MaxUses \in Nat
  BY <1>1, FS_CardinalityType, VnodeAssumption
<1>3. /\ fufh[ty].count \in Nat /\ fufh'[ty].count \in Nat
      /\ fufh[ty].count <= MaxUses + Cardinality(U)
  BY DEF Typed, CountsBounded
<1> HIDE DEF U
<1>4. ASSUME U \subseteq U' PROVE Cardinality(U) <= Cardinality(U')
  BY <1>1, <1>4, FS_Subset
<1>5. ASSUME NEW t \in Threads \ U, U' = U \cup {t}
      PROVE  Cardinality(U') = Cardinality(U) + 1
  BY <1>1, <1>5, FS_AddElement
<1>6. ASSUME NEW t, U' = U \ {t}
      PROVE  Cardinality(U') >= Cardinality(U) - 1
  <2>1. CASE t \in U
    <3>1. Cardinality(U') = Cardinality(U) - 1
      BY <1>1, <1>6, <2>1, FS_RemoveElement
    <3> QED BY <1>2, <3>1
  <2>2. CASE t \notin U
    <3>1. U' = U
      BY <1>6, <2>2
    <3>2. Cardinality(U') = Cardinality(U)
      BY <3>1
    <3> QED BY <1>2, <3>2
  <2> QED BY <2>1, <2>2
<1>7. \/ fufh'[ty].count <= MaxUses
      \/ fufh'[ty].count <= fufh[ty].count /\ U \subseteq U'
      \/ /\ fufh'[ty].count <= fufh[ty].count + 1
         /\ \E t \in Threads \ U : U' = U \cup {t}
      \/ fufh'[ty].count = fufh[ty].count - 1 /\ \E t : U' = U \ {t}
  BY DEF U, NotOverused
<1>8. Users(ty)' = U'
  BY DEF U
<1>9. CASE fufh'[ty].count <= MaxUses
  BY <1>2, <1>3, <1>8, <1>9
<1>10. CASE fufh'[ty].count <= fufh[ty].count /\ U \subseteq U'
  BY <1>2, <1>3, <1>4, <1>8, <1>10
<1>11. CASE /\ fufh'[ty].count <= fufh[ty].count + 1
            /\ \E t \in Threads \ U : U' = U \cup {t}
  <2>1. Cardinality(U') = Cardinality(U) + 1
    BY <1>5, <1>11
  <2> QED BY <1>2, <1>3, <1>8, <1>11, <2>1
<1>12. CASE fufh'[ty].count = fufh[ty].count - 1 /\ \E t : U' = U \ {t}
  <2>1. Cardinality(U') >= Cardinality(U) - 1
    BY <1>6, <1>12
  <2> QED BY <1>2, <1>3, <1>8, <1>12, <2>1
<1> QED BY <1>7, <1>9, <1>10, <1>11, <1>12

(* The use counts cover the threads that use the handles.                  *)
UsersCounted(ty) ==
  \/ /\ fufh'[ty].count >= fufh[ty].count
     /\ Openers(ty)' \subseteq Openers(ty)
     /\ Mappers(ty)' \subseteq Mappers(ty)
  \/ /\ fufh'[ty].count = fufh[ty].count + 1
     /\ \/ /\ \E t : Openers(ty)' \subseteq Openers(ty) \cup {t}
           /\ Mappers(ty)' \subseteq Mappers(ty)
        \/ /\ \E t : Mappers(ty)' \subseteq Mappers(ty) \cup {t}
           /\ Openers(ty)' \subseteq Openers(ty)
  \/ /\ fufh'[ty].count = fufh[ty].count - 1
     /\ \E t \in Openers(ty) : Openers(ty)' = Openers(ty) \ {t}
     /\ Mappers(ty)' \subseteq Mappers(ty)
  \/ Openers(ty)' = {} /\ Mappers(ty)' = {}
  \/ /\ fufh'[ty].count = 1
     /\ \E t : Openers(ty)' = {t}
     /\ Mappers(ty)' = {}

(* What UsersCounted says of every mode keeps the users counted.           *)
LEMMA CoverKept ==
  ASSUME Typed, Typed', Counted,
         \A ty \in Types : UsersCounted(ty)
  PROVE  Counted'
<1> SUFFICES ASSUME NEW ty \in Types
             PROVE  fufh'[ty].count >= Cardinality(Openers(ty)')
                                       + Cardinality(Mappers(ty)')
  BY DEF Counted
<1> DEFINE O == Openers(ty)
           M == Mappers(ty)
           c == fufh[ty].count
<1>1. /\ IsFiniteSet(O) /\ IsFiniteSet(O')
      /\ IsFiniteSet(M) /\ IsFiniteSet(M')
  BY FS_Subset, VnodeAssumption DEF Openers, Mappers
<1>2. /\ Cardinality(O) \in Nat /\ Cardinality(O') \in Nat
      /\ Cardinality(M) \in Nat /\ Cardinality(M') \in Nat
  BY <1>1, FS_CardinalityType
<1>3. c \in Nat /\ c' \in Nat /\ c >= Cardinality(O) + Cardinality(M)
  BY DEF Typed, Counted
<1>4. \/ c' >= c /\ O' \subseteq O /\ M' \subseteq M
      \/ /\ c' = c + 1
         /\ \/ (\E t : O' \subseteq O \cup {t}) /\ M' \subseteq M
            \/ (\E t : M' \subseteq M \cup {t}) /\ O' \subseteq O
      \/ /\ c' = c - 1 /\ M' \subseteq M
         /\ \E t \in O : O' = O \ {t}
      \/ O' = {} /\ M' = {}
      \/ c' = 1 /\ (\E t : O' = {t}) /\ M' = {}
  BY DEF UsersCounted
<1> HIDE DEF O, M, c
<1>5. O' \subseteq O => Cardinality(O') <= Cardinality(O)
  BY <1>1, FS_Subset
<1>6. M' \subseteq M => Cardinality(M') <= Cardinality(M)
  BY <1>1, FS_Subset
<1>7. ASSUME NEW t, O' \subseteq O \cup {t}
      PROVE  Cardinality(O') <= Cardinality(O) + 1
  BY <1>1, <1>2, <1>7, GrowsByOne
<1>8. ASSUME NEW t, M' \subseteq M \cup {t}
      PROVE  Cardinality(M') <= Cardinality(M) + 1
  BY <1>1, <1>2, <1>8, GrowsByOne
<1>9. ASSUME NEW t \in O, O' = O \ {t}
      PROVE  Cardinality(O') = Cardinality(O) - 1
  BY <1>1, <1>9, FS_RemoveElement
<1>10. Cardinality({}) = 0 /\ \A t : Cardinality({t}) = 1
  BY FS_EmptySet, FS_Singleton
<1>11. c' >= Cardinality(O') + Cardinality(M')
  <2>1. CASE c' >= c /\ O' \subseteq O /\ M' \subseteq M
    BY <2>1, <1>2, <1>3, <1>5, <1>6
  <2>2. CASE c' = c + 1 /\ (\E t : O' \subseteq O \cup {t}) /\ M' \subseteq M
    <3>1. Cardinality(O') <= Cardinality(O) + 1
      BY <2>2, <1>7
    <3> QED BY <2>2, <3>1, <1>2, <1>3, <1>6
  <2>3. CASE c' = c + 1 /\ (\E t : M' \subseteq M \cup {t}) /\ O' \subseteq O
    <3>1. Cardinality(M') <= Cardinality(M) + 1
      BY <2>3, <1>8
    <3> QED BY <2>3, <3>1, <1>2, <1>3, <1>5
  <2>4. CASE c' = c - 1 /\ M' \subseteq M /\ \E t \in O : O' = O \ {t}
    <3>1. Cardinality(O') = Cardinality(O) - 1
      BY <2>4, <1>9
    <3> QED BY <2>4, <3>1, <1>2, <1>3, <1>6
  <2>5. CASE O' = {} /\ M' = {}
    BY <2>5, <1>3, <1>10
  <2>6. CASE c' = 1 /\ (\E t : O' = {t}) /\ M' = {}
    <3>1. Cardinality(O') = 1 /\ Cardinality(M') = 0
      BY <2>6, <1>10
    <3> QED BY <2>6, <3>1
  <2> QED BY <1>4, <2>1, <2>2, <2>3, <2>4, <2>5, <2>6
<1> QED BY <1>11 DEF O, M, c

-----------------------------------------------------------------------------
(* The steps.                                                              *)
ThreadStep(t) ==
  \/ LookupMisses(t)
  \/ LookupCached(t)
  \/ Lookup(t)
  \/ LookupFails(t)
  \/ LookupCut(t)
  \/ Create(t)
  \/ CreateMknod(t)
  \/ CreateFails(t)
  \/ CreateCut(t)
  \/ CreateDead(t)
  \/ CreateTooLate(t)
  \/ OpenDead(t)
  \/ OpenStashed(t)
  \/ OpenSleeps(t)
  \/ OpenSignalled(t)
  \/ OpenShared(t)
  \/ OpenGets(t)
  \/ OpenFails(t)
  \/ Close(t)
  \/ MmapShared(t)
  \/ MmapPreflight(t)
  \/ MmapDead(t)
  \/ MmapPanics(t)
  \/ MmapGets(t)
  \/ MmapRetries(t)
  \/ MmapFails(t)
  \/ Munmap(t)

Step(t) ==
  \/ t \in Threads /\ ThreadStep(t)
  \/ Page \/ Inactive \/ Reclaim \/ Forget \/ Die

(* Every step keeps the types ...                                          *)
LEMMA TypedStep ==
  ASSUME TypeInv, NEW t, Step(t)
  PROVE  Typed'
<1>1. CASE t \in Threads /\ LookupMisses(t)
  BY <1>1, VnodeAssumption, SMTT(20)
  DEF LookupMisses, Goto, daemon, vnode, locks, thread, Typed, PCs, TypeInv,
      NeverOverForgotten, Closed, Types
<1>2. CASE t \in Threads /\ LookupCached(t)
  BY <1>2, VnodeAssumption, SMTT(20)
  DEF LookupCached, Goto, daemon, vnode, locks, thread, Typed, PCs, TypeInv,
      NeverOverForgotten, Closed, Types
<1>3. CASE t \in Threads /\ Lookup(t)
  <2>1. HandlesTyped'
    BY <1>3
    DEF Lookup, TypeInv, Typed, HandlesTyped
  <2>2. /\ live' \in BOOLEAN /\ active' \in BOOLEAN
        /\ creator' \in Threads \cup {NoOne}
    BY <1>3, CreatedTyped
    DEF Lookup, TypeInv
  <2> QED BY <1>3, <2>1, <2>2, VnodeAssumption, SMTT(20)
  DEF Lookup, Goto, daemon, vnode, locks, thread, TypeInv, Typed,
      HandlesTyped, PCs, NeverOverForgotten
<1>4. CASE t \in Threads /\ LookupFails(t)
  BY <1>4, VnodeAssumption, SMTT(20)
  DEF LookupFails, GivenBack, daemon, vnode, locks, thread, Typed, PCs,
      TypeInv, NeverOverForgotten, Closed, Types
<1>5. CASE t \in Threads /\ LookupCut(t)
  BY <1>5, VnodeAssumption, SMTT(20)
  DEF LookupCut, daemon, vnode, locks, thread, Typed, PCs, TypeInv,
      NeverOverForgotten, Closed, Types
<1>6. CASE t \in Threads /\ Create(t)
  <2>1. HandlesTyped'
    BY <1>6, GetTyped
    DEF Create, TypeInv
  <2>2. /\ live' \in BOOLEAN /\ active' \in BOOLEAN
        /\ creator' \in Threads \cup {NoOne}
    BY <1>6, CreatedTyped
    DEF Create, TypeInv
  <2> QED BY <1>6, <2>1, <2>2, VnodeAssumption, SMTT(20)
  DEF Create, Goto, Creating, daemon, vnode, locks, thread, TypeInv, Typed,
      HandlesTyped, PCs, NeverOverForgotten
<1>7. CASE t \in Threads /\ CreateMknod(t)
  <2>1. HandlesTyped'
    BY <1>7
    DEF CreateMknod, Creating, TypeInv, Typed, HandlesTyped
  <2>2. /\ live' \in BOOLEAN /\ active' \in BOOLEAN
        /\ creator' \in Threads \cup {NoOne}
    BY <1>7, CreatedTyped
    DEF CreateMknod, TypeInv
  <2> QED BY <1>7, <2>1, <2>2, VnodeAssumption, SMTT(20)
  DEF CreateMknod, Goto, Creating, daemon, vnode, locks, thread, TypeInv,
      Typed, HandlesTyped, PCs, NeverOverForgotten
<1>8. CASE t \in Threads /\ CreateFails(t)
  BY <1>8, VnodeAssumption, SMTT(20)
  DEF CreateFails, Goto, Creating, daemon, vnode, locks, thread, Typed, PCs,
      TypeInv, NeverOverForgotten, Closed, Types
<1>9. CASE t \in Threads /\ CreateCut(t)
  <2>1. HandlesTyped'
    BY <1>9, CutTyped
    DEF CreateCut, TypeInv
  <2> QED BY <1>9, <2>1, VnodeAssumption, SMTT(20)
  DEF CreateCut, Goto, Creating, daemon, vnode, locks, thread, TypeInv,
      Typed, HandlesTyped, PCs, NeverOverForgotten
<1>10. CASE t \in Threads /\ CreateDead(t)
  BY <1>10, VnodeAssumption, SMTT(20)
  DEF CreateDead, Goto, daemon, vnode, locks, thread, Typed, PCs, TypeInv,
      NeverOverForgotten, Closed, Types
<1>11. CASE t \in Threads /\ CreateTooLate(t)
  BY <1>11, VnodeAssumption, SMTT(20)
  DEF CreateTooLate, Goto, daemon, vnode, locks, thread, Typed, PCs, TypeInv,
      NeverOverForgotten, Closed, Types
<1>12. CASE t \in Threads /\ OpenDead(t)
  BY <1>12, VnodeAssumption, SMTT(20)
  DEF OpenDead, Locked, daemon, vnode, locks, thread, Typed, PCs, TypeInv,
      NeverOverForgotten, Closed, Types
<1>13. CASE t \in Threads /\ OpenStashed(t)
  <2>1. PICK ty \in OpenTypes :
          /\ fufh' = [fufh EXCEPT !["RDWR"].count = 0,
                        ![ty] = [count |-> 1, fh |-> fufh["RDWR"].fh]]
          /\ file' = [file EXCEPT ![t] = ty]
    BY <1>13 DEF OpenStashed
  <2>2. fufh' \in [Types -> [count : Nat, fh : Handles \cup {NoOne}]]
    BY <2>1, VnodeAssumption DEF Typed, TypeInv, Types
  <2>3. HandlesTyped'
    BY <1>13, <2>2 DEF OpenStashed, daemon, TypeInv, Typed, HandlesTyped
  <2>4. /\ pc' \in [Threads -> PCs]
        /\ file' \in [Threads -> OpenTypes \cup {NoOne}]
    BY <1>13, <2>1, VnodeAssumption
    DEF OpenStashed, TypeInv, Typed, PCs, Placed, Locked
  <2> QED BY <1>13, <2>3, <2>4, SMTT(20)
    DEF OpenStashed, TypeInv, Typed, HandlesTyped, daemon, locks
<1>14. CASE t \in Threads /\ OpenSleeps(t)
  BY <1>14, VnodeAssumption, SMTT(20)
  DEF OpenSleeps, Locked, daemon, vnode, locks, thread, Typed, PCs, TypeInv,
      NeverOverForgotten, Closed, Types
<1>15. CASE t \in Threads /\ OpenSignalled(t)
  BY <1>15, VnodeAssumption, SMTT(20)
  DEF OpenSignalled, Goto, Leave, daemon, vnode, locks, thread, Typed, PCs,
      TypeInv, NeverOverForgotten, Closed, Types
<1>16. CASE t \in Threads /\ OpenShared(t)
  BY <1>16, VnodeAssumption, SMTT(20)
  DEF OpenShared, Opening, Locked, Leave, Use, Valid, daemon, vnode, locks,
      thread, Typed, PCs, TypeInv, NeverOverForgotten, Closed, Types
<1>17. CASE t \in Threads /\ OpenGets(t)
  <2>1. HandlesTyped'
    BY <1>17, GetTyped
    DEF OpenGets, TypeInv
  <2> QED BY <1>17, <2>1, VnodeAssumption, SMTT(20)
  DEF OpenGets, Opening, Locked, Leave, Valid, daemon, vnode, locks, thread,
      TypeInv, Typed, HandlesTyped, PCs, NeverOverForgotten
<1>18. CASE t \in Threads /\ OpenFails(t)
  <2>1. HandlesTyped'
    BY <1>18, CutTyped
    DEF OpenFails, GetRefused, TypeInv, Typed, HandlesTyped
  <2> QED BY <1>18, <2>1, VnodeAssumption, SMTT(20)
  DEF OpenFails, Opening, Locked, Leave, GetRefused, Valid, daemon, vnode,
      locks, thread, TypeInv, Typed, HandlesTyped, PCs, NeverOverForgotten
<1>19. CASE t \in Threads /\ Close(t)
  <2>1. HandlesTyped'
    BY <1>19 DEF Close, Goto, Put, Valid, TypeInv, Typed, HandlesTyped
  <2>2. /\ exists' \in BOOLEAN /\ dead' \in BOOLEAN /\ live' \in BOOLEAN
        /\ active' \in BOOLEAN
    BY <1>19, Zenon DEF Close, TypeInv, Typed
  <2>3. /\ creator' \in Threads \cup {NoOne}
        /\ known' \in 0..MaxKnown /\ forgets' \in Nat /\ nlookup' \in Nat
        /\ node' \in Threads \cup {NoOne} /\ big' \in Threads \cup {NoOne}
        /\ pc' \in [Threads -> PCs]
        /\ file' \in [Threads -> OpenTypes \cup {NoOne}]
        /\ map' \in [Threads -> Types \cup {NoOne}]
    BY <1>19 DEF Close, Goto, locks, PCs, TypeInv, Typed
  <2> QED BY <2>1, <2>2, <2>3, RestTyped
<1>20. CASE t \in Threads /\ MmapShared(t)
  BY <1>20, VnodeAssumption, SMTT(20)
  DEF MmapShared, Locked, MayMap, Use, Map, Valid, daemon, vnode, locks,
      thread, Typed, PCs, TypeInv, NeverOverForgotten, Closed, Types
<1>21. CASE t \in Threads /\ MmapPreflight(t)
  BY <1>21, VnodeAssumption, SMTT(20)
  DEF MmapPreflight, Goto, Locked, Map, Valid, daemon, vnode, locks, thread,
      Typed, PCs, TypeInv, NeverOverForgotten, Closed, Types
<1>22. CASE t \in Threads /\ MmapDead(t)
  BY <1>22, VnodeAssumption, SMTT(20)
  DEF MmapDead, Goto, Locked, daemon, vnode, locks, thread, Typed, PCs,
      TypeInv, NeverOverForgotten, Closed, Types
<1>23. CASE t \in Threads /\ MmapPanics(t)
  BY <1>23, VnodeAssumption, SMTT(20)
  DEF MmapPanics, Goto, Valid, daemon, vnode, locks, thread, Typed, PCs,
      TypeInv, NeverOverForgotten, Closed, Types
<1>24. CASE t \in Threads /\ MmapGets(t)
  <2>1. HandlesTyped'
    BY <1>24, GetTyped
    DEF MmapGets, TypeInv
  <2> QED BY <1>24, <2>1, VnodeAssumption, SMTT(20)
  DEF MmapGets, Goto, Leave, Valid, daemon, vnode, locks, thread, TypeInv,
      Typed, HandlesTyped, PCs, NeverOverForgotten
<1>25. CASE t \in Threads /\ MmapRetries(t)
  BY <1>25, VnodeAssumption, SMTT(20)
  DEF MmapRetries, Goto, Map, MayMap, Use, Leave, Valid, daemon, vnode,
      locks, thread, Typed, PCs, TypeInv, NeverOverForgotten, Closed, Types
<1>26. CASE t \in Threads /\ MmapFails(t)
  <2>1. HandlesTyped'
    BY <1>26, CutTyped
    DEF MmapFails, GetRefused, TypeInv, Typed, HandlesTyped
  <2> QED BY <1>26, <2>1, VnodeAssumption, SMTT(20)
  DEF MmapFails, Goto, Map, Leave, GetRefused, Valid, daemon, vnode, locks,
      thread, TypeInv, Typed, HandlesTyped, PCs, NeverOverForgotten
<1>27. CASE t \in Threads /\ Munmap(t)
  BY <1>27, VnodeAssumption, SMTT(20)
  DEF Munmap, Map, daemon, vnode, locks, thread, Typed, PCs, TypeInv,
      NeverOverForgotten, Closed, Types
<1>28. CASE Page
  <2>1. HandlesTyped'
    BY <1>28, GetTyped, CutTyped
    DEF Page, TypeInv
  <2> QED BY <1>28, <2>1, VnodeAssumption, SMTT(20)
  DEF Page, Valid, daemon, vnode, locks, thread, TypeInv, Typed,
      HandlesTyped, PCs, NeverOverForgotten
<1>29. CASE Inactive
  <2>1. HandlesTyped'
    BY <1>29, ResetTyped DEF Inactive, TypeInv
  <2>2. /\ exists' \in BOOLEAN /\ dead' \in BOOLEAN /\ live' \in BOOLEAN
        /\ active' \in BOOLEAN
    BY <1>29, Zenon DEF Inactive, TypeInv, Typed
  <2>3. /\ creator' \in Threads \cup {NoOne}
        /\ known' \in 0..MaxKnown /\ forgets' \in Nat /\ nlookup' \in Nat
    BY <1>29 DEF Inactive, ToForget, TypeInv, Typed
  <2>4. /\ node' \in Threads \cup {NoOne} /\ big' \in Threads \cup {NoOne}
        /\ pc' \in [Threads -> PCs]
        /\ file' \in [Threads -> OpenTypes \cup {NoOne}]
        /\ map' \in [Threads -> Types \cup {NoOne}]
    BY <1>29 DEF Inactive, locks, thread, TypeInv, Typed
  <2> QED BY <2>1, <2>2, <2>3, <2>4, RestTyped
<1>30. CASE Reclaim
  <2>1. HandlesTyped'
    BY <1>30, ResetTyped DEF Reclaim, TypeInv
  <2>2. /\ exists' \in BOOLEAN /\ dead' \in BOOLEAN /\ live' \in BOOLEAN
        /\ active' \in BOOLEAN
    BY <1>30, Zenon DEF Reclaim, TypeInv, Typed
  <2>3. /\ creator' \in Threads \cup {NoOne}
        /\ known' \in 0..MaxKnown /\ forgets' \in Nat /\ nlookup' \in Nat
    BY <1>30 DEF Reclaim, ToForget, TypeInv, Typed
  <2>4. /\ node' \in Threads \cup {NoOne} /\ big' \in Threads \cup {NoOne}
        /\ pc' \in [Threads -> PCs]
        /\ file' \in [Threads -> OpenTypes \cup {NoOne}]
        /\ map' \in [Threads -> Types \cup {NoOne}]
    BY <1>30 DEF Reclaim, locks, thread, TypeInv, Typed
  <2> QED BY <2>1, <2>2, <2>3, <2>4, RestTyped
<1>31. CASE Forget
  BY <1>31, VnodeAssumption, SMTT(20)
  DEF Forget, daemon, vnode, locks, thread, Typed, PCs, TypeInv,
      NeverOverForgotten, Closed, Types
<1>32. CASE Die
  BY <1>32, VnodeAssumption, SMTT(20)
  DEF Die, daemon, vnode, locks, thread, Typed, PCs, TypeInv,
      NeverOverForgotten, Closed, Types
<1> QED
  BY <1>1, <1>2, <1>3, <1>4, <1>5, <1>6, <1>7, <1>8, <1>9, <1>10, <1>11,
     <1>12, <1>13, <1>14, <1>15, <1>16, <1>17, <1>18, <1>19, <1>20, <1>21,
     <1>22, <1>23, <1>24, <1>25, <1>26, <1>27, <1>28, <1>29, <1>30, <1>31,
     <1>32
  DEF Step, ThreadStep

(* ... and the places of threads and what they have open.                  *)
LEMMA PlacedStep ==
  ASSUME TypeInv, NEW t, Step(t)
  PROVE  Placed'
<1>1. CASE t \in Threads /\ LookupMisses(t)
  BY <1>1, VnodeAssumption, SMTT(20)
  DEF LookupMisses, Goto, daemon, vnode, locks, thread, Typed, Placed,
      TypeInv
<1>2. CASE t \in Threads /\ LookupCached(t)
  BY <1>2, VnodeAssumption, SMTT(20)
  DEF LookupCached, Goto, daemon, vnode, locks, thread, Typed, Placed,
      TypeInv
<1>3. CASE t \in Threads /\ Lookup(t)
  BY <1>3, VnodeAssumption, SMTT(20)
  DEF Lookup, Goto, Created, daemon, vnode, locks, thread, Typed, Placed,
      TypeInv
<1>4. CASE t \in Threads /\ LookupFails(t)
  BY <1>4, VnodeAssumption, SMTT(20)
  DEF LookupFails, GivenBack, daemon, vnode, locks, thread, Typed, Placed,
      TypeInv
<1>5. CASE t \in Threads /\ LookupCut(t)
  BY <1>5, VnodeAssumption, SMTT(20)
  DEF LookupCut, daemon, vnode, locks, thread, Typed, Placed, TypeInv
<1>6. CASE t \in Threads /\ Create(t)
  BY <1>6, VnodeAssumption, SMTT(20)
  DEF Create, Goto, Creating, Get, Opened, Created, daemon, vnode, locks,
      thread, Typed, Placed, TypeInv
<1>7. CASE t \in Threads /\ CreateMknod(t)
  BY <1>7, VnodeAssumption, SMTT(20)
  DEF CreateMknod, Goto, Creating, Created, daemon, vnode, locks, thread,
      Typed, Placed, TypeInv
<1>8. CASE t \in Threads /\ CreateFails(t)
  BY <1>8, VnodeAssumption, SMTT(20)
  DEF CreateFails, Goto, Creating, daemon, vnode, locks, thread, Typed,
      Placed, TypeInv
<1>9. CASE t \in Threads /\ CreateCut(t)
  BY <1>9, VnodeAssumption, SMTT(20)
  DEF CreateCut, Goto, Creating, GetCut, Opened, daemon, vnode, locks,
      thread, Typed, Placed, TypeInv
<1>10. CASE t \in Threads /\ CreateDead(t)
  BY <1>10, VnodeAssumption, SMTT(20)
  DEF CreateDead, Goto, daemon, vnode, locks, thread, Typed, Placed, TypeInv
<1>11. CASE t \in Threads /\ CreateTooLate(t)
  BY <1>11, VnodeAssumption, SMTT(20)
  DEF CreateTooLate, Goto, daemon, vnode, locks, thread, Typed, Placed,
      TypeInv
<1>12. CASE t \in Threads /\ OpenDead(t)
  BY <1>12, VnodeAssumption, SMTT(20)
  DEF OpenDead, Locked, daemon, vnode, locks, thread, Typed, Placed, TypeInv
<1>13. CASE t \in Threads /\ OpenStashed(t)
  BY <1>13, VnodeAssumption, SMTT(20)
  DEF OpenStashed, Locked, daemon, vnode, locks, thread, Typed, Placed,
      TypeInv
<1>14. CASE t \in Threads /\ OpenSleeps(t)
  BY <1>14, VnodeAssumption, SMTT(20)
  DEF OpenSleeps, Locked, daemon, vnode, locks, thread, Typed, Placed,
      TypeInv
<1>15. CASE t \in Threads /\ OpenSignalled(t)
  BY <1>15, VnodeAssumption, SMTT(20)
  DEF OpenSignalled, Goto, Leave, daemon, vnode, locks, thread, Typed,
      Placed, TypeInv
<1>16. CASE t \in Threads /\ OpenShared(t)
  BY <1>16, VnodeAssumption, SMTT(20)
  DEF OpenShared, Opening, Locked, Leave, Use, Valid, daemon, vnode, locks,
      thread, Typed, Placed, TypeInv
<1>17. CASE t \in Threads /\ OpenGets(t)
  BY <1>17, VnodeAssumption, SMTT(20)
  DEF OpenGets, Opening, Locked, Leave, Get, Opened, Valid, daemon, vnode,
      locks, thread, Typed, Placed, TypeInv
<1>18. CASE t \in Threads /\ OpenFails(t)
  BY <1>18, VnodeAssumption, SMTT(20)
  DEF OpenFails, Opening, Locked, Leave, GetRefused, GetCut, Opened, Valid,
      daemon, vnode, locks, thread, Typed, Placed, TypeInv
<1>19. CASE t \in Threads /\ Close(t)
  BY <1>19, VnodeAssumption, SMTT(20)
  DEF Close, Goto, Locked, Put, LastUse, Valid, daemon, vnode, locks, thread,
      Typed, Placed, TypeInv
<1>20. CASE t \in Threads /\ MmapShared(t)
  BY <1>20, VnodeAssumption, SMTT(20)
  DEF MmapShared, Locked, MayMap, Use, Map, Valid, daemon, vnode, locks,
      thread, Typed, Placed, TypeInv
<1>21. CASE t \in Threads /\ MmapPreflight(t)
  BY <1>21, VnodeAssumption, SMTT(20)
  DEF MmapPreflight, Goto, Locked, Map, Valid, daemon, vnode, locks, thread,
      Typed, Placed, TypeInv
<1>22. CASE t \in Threads /\ MmapDead(t)
  BY <1>22, VnodeAssumption, SMTT(20)
  DEF MmapDead, Goto, Locked, daemon, vnode, locks, thread, Typed, Placed,
      TypeInv
<1>23. CASE t \in Threads /\ MmapPanics(t)
  BY <1>23, VnodeAssumption, SMTT(20)
  DEF MmapPanics, Goto, Valid, daemon, vnode, locks, thread, Typed, Placed,
      TypeInv
<1>24. CASE t \in Threads /\ MmapGets(t)
  BY <1>24, VnodeAssumption, SMTT(20)
  DEF MmapGets, Goto, Get, Opened, Leave, Valid, daemon, vnode, locks,
      thread, Typed, Placed, TypeInv
<1>25. CASE t \in Threads /\ MmapRetries(t)
  <2>1. pc' = pc \/ pc' = [pc EXCEPT ![t] = "open"]
    BY <1>25, Zenon DEF MmapRetries
  <2>2. \A s \in Threads : pc[s] # "asleep" /\ pc[s] # "panic"
    BY <1>25, VnodeAssumption DEF MmapRetries, TypeInv, Placed
  <2>3. /\ map' = [map EXCEPT ![t] = "RDONLY"] /\ file' = file /\ dead' = dead
        /\ pc[t] = "preflight"
    BY <1>25 DEF MmapRetries, Map, daemon
  <2> QED BY <2>1, <2>2, <2>3, VnodeAssumption
    DEF TypeInv, Typed, Placed, Types
<1>26. CASE t \in Threads /\ MmapFails(t)
  BY <1>26, VnodeAssumption, SMTT(20)
  DEF MmapFails, Goto, Map, Leave, GetRefused, GetCut, Opened, Valid, daemon,
      vnode, locks, thread, Typed, Placed, TypeInv
<1>27. CASE t \in Threads /\ Munmap(t)
  BY <1>27, VnodeAssumption, SMTT(20)
  DEF Munmap, Map, daemon, vnode, locks, thread, Typed, Placed, TypeInv
<1>28. CASE Page
  BY <1>28, VnodeAssumption, SMTT(20)
  DEF Page, Get, GetCut, Opened, Valid, daemon, vnode, locks, thread, Typed,
      Placed, TypeInv
<1>29. CASE Inactive
  BY <1>29, VnodeAssumption, SMTT(20)
  DEF Inactive, Referenced, Put, Reset, LeftOpen, daemon, vnode, locks,
      thread, Typed, Placed, TypeInv
<1>30. CASE Reclaim
  BY <1>30, VnodeAssumption, SMTT(20)
  DEF Reclaim, Referenced, Put, Reset, LeftOpen, ToForget, daemon, vnode,
      locks, thread, Typed, Placed, TypeInv
<1>31. CASE Forget
  BY <1>31, VnodeAssumption, SMTT(20)
  DEF Forget, daemon, vnode, locks, thread, Typed, Placed, TypeInv
<1>32. CASE Die
  BY <1>32, VnodeAssumption, SMTT(20)
  DEF Die, daemon, vnode, locks, thread, Typed, Placed, TypeInv
<1> QED
  BY <1>1, <1>2, <1>3, <1>4, <1>5, <1>6, <1>7, <1>8, <1>9, <1>10, <1>11,
     <1>12, <1>13, <1>14, <1>15, <1>16, <1>17, <1>18, <1>19, <1>20, <1>21,
     <1>22, <1>23, <1>24, <1>25, <1>26, <1>27, <1>28, <1>29, <1>30, <1>31,
     <1>32
  DEF Step, ThreadStep

(* FORGET gives back what the vnode has counted and never more.            *)
LEMMA ForgottenStep ==
  ASSUME TypeInv, NEW t, Step(t)
  PROVE  NeverOverForgotten'
<1>1. CASE t \in Threads /\ LookupMisses(t)
  BY <1>1, VnodeAssumption, SMTT(20)
  DEF LookupMisses, Goto, daemon, vnode, locks, thread, Typed,
      NeverOverForgotten, TypeInv
<1>2. CASE t \in Threads /\ LookupCached(t)
  BY <1>2, VnodeAssumption, SMTT(20)
  DEF LookupCached, Goto, daemon, vnode, locks, thread, Typed,
      NeverOverForgotten, TypeInv
<1>3. CASE t \in Threads /\ Lookup(t)
  BY <1>3, VnodeAssumption, SMTT(20)
  DEF Lookup, Goto, Created, daemon, vnode, locks, thread, Typed,
      NeverOverForgotten, TypeInv
<1>4. CASE t \in Threads /\ LookupFails(t)
  BY <1>4, VnodeAssumption, SMTT(20)
  DEF LookupFails, GivenBack, daemon, vnode, locks, thread, Typed,
      NeverOverForgotten, TypeInv
<1>5. CASE t \in Threads /\ LookupCut(t)
  BY <1>5, VnodeAssumption, SMTT(20)
  DEF LookupCut, daemon, vnode, locks, thread, Typed, NeverOverForgotten,
      TypeInv
<1>6. CASE t \in Threads /\ Create(t)
  BY <1>6, VnodeAssumption, SMTT(20)
  DEF Create, Goto, Creating, Get, Opened, Created, daemon, vnode, locks,
      thread, Typed, NeverOverForgotten, TypeInv
<1>7. CASE t \in Threads /\ CreateMknod(t)
  BY <1>7, VnodeAssumption, SMTT(20)
  DEF CreateMknod, Goto, Creating, Created, daemon, vnode, locks, thread,
      Typed, NeverOverForgotten, TypeInv
<1>8. CASE t \in Threads /\ CreateFails(t)
  BY <1>8, VnodeAssumption, SMTT(20)
  DEF CreateFails, Goto, Creating, daemon, vnode, locks, thread, Typed,
      NeverOverForgotten, TypeInv
<1>9. CASE t \in Threads /\ CreateCut(t)
  BY <1>9, VnodeAssumption, SMTT(20)
  DEF CreateCut, Goto, Creating, GetCut, Opened, daemon, vnode, locks,
      thread, Typed, NeverOverForgotten, TypeInv
<1>10. CASE t \in Threads /\ CreateDead(t)
  BY <1>10, VnodeAssumption, SMTT(20)
  DEF CreateDead, Goto, daemon, vnode, locks, thread, Typed,
      NeverOverForgotten, TypeInv
<1>11. CASE t \in Threads /\ CreateTooLate(t)
  BY <1>11, VnodeAssumption, SMTT(20)
  DEF CreateTooLate, Goto, daemon, vnode, locks, thread, Typed,
      NeverOverForgotten, TypeInv
<1>12. CASE t \in Threads /\ OpenDead(t)
  BY <1>12, VnodeAssumption, SMTT(20)
  DEF OpenDead, Locked, daemon, vnode, locks, thread, Typed,
      NeverOverForgotten, TypeInv
<1>13. CASE t \in Threads /\ OpenStashed(t)
  BY <1>13, VnodeAssumption, SMTT(20)
  DEF OpenStashed, Locked, daemon, vnode, locks, thread, Typed,
      NeverOverForgotten, TypeInv
<1>14. CASE t \in Threads /\ OpenSleeps(t)
  BY <1>14, VnodeAssumption, SMTT(20)
  DEF OpenSleeps, Locked, daemon, vnode, locks, thread, Typed,
      NeverOverForgotten, TypeInv
<1>15. CASE t \in Threads /\ OpenSignalled(t)
  BY <1>15, VnodeAssumption, SMTT(20)
  DEF OpenSignalled, Goto, Leave, daemon, vnode, locks, thread, Typed,
      NeverOverForgotten, TypeInv
<1>16. CASE t \in Threads /\ OpenShared(t)
  BY <1>16, VnodeAssumption, SMTT(20)
  DEF OpenShared, Opening, Locked, Leave, Use, Valid, daemon, vnode, locks,
      thread, Typed, NeverOverForgotten, TypeInv
<1>17. CASE t \in Threads /\ OpenGets(t)
  BY <1>17, VnodeAssumption, SMTT(20)
  DEF OpenGets, Opening, Locked, Leave, Get, Opened, Valid, daemon, vnode,
      locks, thread, Typed, NeverOverForgotten, TypeInv
<1>18. CASE t \in Threads /\ OpenFails(t)
  BY <1>18, VnodeAssumption, SMTT(20)
  DEF OpenFails, Opening, Locked, Leave, GetRefused, GetCut, Opened, Valid,
      daemon, vnode, locks, thread, Typed, NeverOverForgotten, TypeInv
<1>19. CASE t \in Threads /\ Close(t)
  BY <1>19, VnodeAssumption, SMTT(20)
  DEF Close, Goto, Locked, Put, LastUse, Valid, daemon, vnode, locks, thread,
      Typed, NeverOverForgotten, TypeInv
<1>20. CASE t \in Threads /\ MmapShared(t)
  BY <1>20, VnodeAssumption, SMTT(20)
  DEF MmapShared, Locked, MayMap, Use, Map, Valid, daemon, vnode, locks,
      thread, Typed, NeverOverForgotten, TypeInv
<1>21. CASE t \in Threads /\ MmapPreflight(t)
  BY <1>21, VnodeAssumption, SMTT(20)
  DEF MmapPreflight, Goto, Locked, Map, Valid, daemon, vnode, locks, thread,
      Typed, NeverOverForgotten, TypeInv
<1>22. CASE t \in Threads /\ MmapDead(t)
  BY <1>22, VnodeAssumption, SMTT(20)
  DEF MmapDead, Goto, Locked, daemon, vnode, locks, thread, Typed,
      NeverOverForgotten, TypeInv
<1>23. CASE t \in Threads /\ MmapPanics(t)
  BY <1>23, VnodeAssumption, SMTT(20)
  DEF MmapPanics, Goto, Valid, daemon, vnode, locks, thread, Typed,
      NeverOverForgotten, TypeInv
<1>24. CASE t \in Threads /\ MmapGets(t)
  BY <1>24, VnodeAssumption, SMTT(20)
  DEF MmapGets, Goto, Get, Opened, Leave, Valid, daemon, vnode, locks,
      thread, Typed, NeverOverForgotten, TypeInv
<1>25. CASE t \in Threads /\ MmapRetries(t)
  BY <1>25, VnodeAssumption, SMTT(20)
  DEF MmapRetries, Goto, Map, MayMap, Use, Leave, Valid, daemon, vnode,
      locks, thread, Typed, NeverOverForgotten, TypeInv
<1>26. CASE t \in Threads /\ MmapFails(t)
  BY <1>26, VnodeAssumption, SMTT(20)
  DEF MmapFails, Goto, Map, Leave, GetRefused, GetCut, Opened, Valid, daemon,
      vnode, locks, thread, Typed, NeverOverForgotten, TypeInv
<1>27. CASE t \in Threads /\ Munmap(t)
  BY <1>27, VnodeAssumption, SMTT(20)
  DEF Munmap, Map, daemon, vnode, locks, thread, Typed, NeverOverForgotten,
      TypeInv
<1>28. CASE Page
  BY <1>28, VnodeAssumption, SMTT(20)
  DEF Page, Get, GetCut, Opened, Valid, daemon, vnode, locks, thread, Typed,
      NeverOverForgotten, TypeInv
<1>29. CASE Inactive
  BY <1>29, VnodeAssumption, SMTT(20)
  DEF Inactive, Referenced, Put, Reset, LeftOpen, daemon, vnode, locks,
      thread, Typed, NeverOverForgotten, TypeInv
<1>30. CASE Reclaim
  BY <1>30, VnodeAssumption, SMTT(20)
  DEF Reclaim, Referenced, Put, Reset, LeftOpen, ToForget, daemon, vnode,
      locks, thread, Typed, NeverOverForgotten, TypeInv
<1>31. CASE Forget
  BY <1>31, VnodeAssumption, SMTT(20)
  DEF Forget, daemon, vnode, locks, thread, Typed, NeverOverForgotten,
      TypeInv
<1>32. CASE Die
  BY <1>32, VnodeAssumption, SMTT(20)
  DEF Die, daemon, vnode, locks, thread, Typed, NeverOverForgotten, TypeInv
<1> QED
  BY <1>1, <1>2, <1>3, <1>4, <1>5, <1>6, <1>7, <1>8, <1>9, <1>10, <1>11,
     <1>12, <1>13, <1>14, <1>15, <1>16, <1>17, <1>18, <1>19, <1>20, <1>21,
     <1>22, <1>23, <1>24, <1>25, <1>26, <1>27, <1>28, <1>29, <1>30, <1>31,
     <1>32
  DEF Step, ThreadStep

(* A use count grows with a thread that opens the file, or below MaxUses.  *)
LEMMA BoundedStep ==
  ASSUME TypeInv, NEW t, Step(t)
  PROVE  CountsBounded'
<1>1. CASE t \in Threads /\ LookupMisses(t)
  <2>1. \A ty \in Types : NotOverused(ty)
    BY <1>1, VnodeAssumption, SMTT(20)
    DEF LookupMisses, Goto, daemon, vnode, locks, thread, NotOverused,
        TypeInv, Typed, Placed, Users, Openers, Closed
  <2> QED BY <1>1, <2>1, BoundKept, TypedStep DEF TypeInv
<1>2. CASE t \in Threads /\ LookupCached(t)
  <2>1. \A ty \in Types : NotOverused(ty)
    BY <1>2, VnodeAssumption, SMTT(20)
    DEF LookupCached, Goto, daemon, vnode, locks, thread, NotOverused,
        TypeInv, Typed, Placed, Users, Openers, Closed
  <2> QED BY <1>2, <2>1, BoundKept, TypedStep DEF TypeInv
<1>3. CASE t \in Threads /\ Lookup(t)
  <2>1. \A ty \in Types : NotOverused(ty)
    BY <1>3, VnodeAssumption, SMTT(20)
    DEF Lookup, Goto, Created, daemon, vnode, locks, thread, NotOverused,
        TypeInv, Typed, Placed, Users, Openers, Closed
  <2> QED BY <1>3, <2>1, BoundKept, TypedStep DEF TypeInv
<1>4. CASE t \in Threads /\ LookupFails(t)
  <2>1. \A ty \in Types : NotOverused(ty)
    BY <1>4, VnodeAssumption, SMTT(20)
    DEF LookupFails, GivenBack, daemon, vnode, locks, thread, NotOverused,
        TypeInv, Typed, Placed, Users, Openers, Closed
  <2> QED BY <1>4, <2>1, BoundKept, TypedStep DEF TypeInv
<1>5. CASE t \in Threads /\ LookupCut(t)
  <2>1. \A ty \in Types : NotOverused(ty)
    BY <1>5, VnodeAssumption, SMTT(20)
    DEF LookupCut, daemon, vnode, locks, thread, NotOverused, TypeInv, Typed,
        Placed, Users, Openers, Closed
  <2> QED BY <1>5, <2>1, BoundKept, TypedStep DEF TypeInv
<1>6. CASE t \in Threads /\ Create(t)
  <2>1. \A ty \in Types : NotOverused(ty)
    BY <1>6, VnodeAssumption, SMTT(20)
    DEF Create, Goto, Creating, Get, Opened, Created, daemon, vnode, locks,
        thread, NotOverused, TypeInv, Typed, Placed, Users, Openers, Closed
  <2> QED BY <1>6, <2>1, BoundKept, TypedStep DEF TypeInv
<1>7. CASE t \in Threads /\ CreateMknod(t)
  <2>1. \A ty \in Types : NotOverused(ty)
    BY <1>7, VnodeAssumption, SMTT(20)
    DEF CreateMknod, Goto, Creating, Created, daemon, vnode, locks, thread,
        NotOverused, TypeInv, Typed, Placed, Users, Openers, Closed
  <2> QED BY <1>7, <2>1, BoundKept, TypedStep DEF TypeInv
<1>8. CASE t \in Threads /\ CreateFails(t)
  <2>1. \A ty \in Types : NotOverused(ty)
    BY <1>8, VnodeAssumption, SMTT(20)
    DEF CreateFails, Goto, Creating, daemon, vnode, locks, thread,
        NotOverused, TypeInv, Typed, Placed, Users, Openers, Closed
  <2> QED BY <1>8, <2>1, BoundKept, TypedStep DEF TypeInv
<1>9. CASE t \in Threads /\ CreateCut(t)
  <2>1. \A ty \in Types : NotOverused(ty)
    BY <1>9, VnodeAssumption, SMTT(20)
    DEF CreateCut, Goto, Creating, GetCut, Opened, daemon, vnode, locks,
        thread, NotOverused, TypeInv, Typed, Placed, Users, Openers, Closed
  <2> QED BY <1>9, <2>1, BoundKept, TypedStep DEF TypeInv
<1>10. CASE t \in Threads /\ CreateDead(t)
  <2>1. \A ty \in Types : NotOverused(ty)
    BY <1>10, VnodeAssumption, SMTT(20)
    DEF CreateDead, Goto, daemon, vnode, locks, thread, NotOverused, TypeInv,
        Typed, Placed, Users, Openers, Closed
  <2> QED BY <1>10, <2>1, BoundKept, TypedStep DEF TypeInv
<1>11. CASE t \in Threads /\ CreateTooLate(t)
  <2>1. \A ty \in Types : NotOverused(ty)
    BY <1>11, VnodeAssumption, SMTT(20)
    DEF CreateTooLate, Goto, daemon, vnode, locks, thread, NotOverused,
        TypeInv, Typed, Placed, Users, Openers, Closed
  <2> QED BY <1>11, <2>1, BoundKept, TypedStep DEF TypeInv
<1>12. CASE t \in Threads /\ OpenDead(t)
  <2>1. \A ty \in Types : NotOverused(ty)
    BY <1>12, VnodeAssumption, SMTT(20)
    DEF OpenDead, Locked, daemon, vnode, locks, thread, NotOverused, TypeInv,
        Typed, Placed, Users, Openers, Closed
  <2> QED BY <1>12, <2>1, BoundKept, TypedStep DEF TypeInv
<1>13. CASE t \in Threads /\ OpenStashed(t)
  <2>1. \A ty \in Types : NotOverused(ty)
    BY <1>13, VnodeAssumption, SMTT(20)
    DEF OpenStashed, Locked, daemon, vnode, locks, thread, NotOverused,
        TypeInv, Typed, Placed, Users, Openers, Closed
  <2> QED BY <1>13, <2>1, BoundKept, TypedStep DEF TypeInv
<1>14. CASE t \in Threads /\ OpenSleeps(t)
  <2>1. \A ty \in Types : NotOverused(ty)
    BY <1>14, VnodeAssumption, SMTT(20)
    DEF OpenSleeps, Locked, daemon, vnode, locks, thread, NotOverused,
        TypeInv, Typed, Placed, Users, Openers, Closed
  <2> QED BY <1>14, <2>1, BoundKept, TypedStep DEF TypeInv
<1>15. CASE t \in Threads /\ OpenSignalled(t)
  <2>1. \A ty \in Types : NotOverused(ty)
    BY <1>15, VnodeAssumption, SMTT(20)
    DEF OpenSignalled, Goto, Leave, daemon, vnode, locks, thread,
        NotOverused, TypeInv, Typed, Placed, Users, Openers, Closed
  <2> QED BY <1>15, <2>1, BoundKept, TypedStep DEF TypeInv
<1>16. CASE t \in Threads /\ OpenShared(t)
  <2>1. PICK ty \in OpenTypes :
          /\ fufh' = [fufh EXCEPT ![ty].count = @ + 1]
          /\ file' = [file EXCEPT ![t] = ty]
    BY <1>16 DEF OpenShared, Use
  <2>2. /\ ~dead /\ ~dead' /\ file[t] = NoOne /\ ty \in Types /\ ty # NoOne
    BY <1>16, <2>1, VnodeAssumption
    DEF OpenShared, Opening, daemon, TypeInv, Typed, PCs, Placed
  <2>3. Users(ty)' = Users(ty) \cup {t} /\ t \in Threads \ Users(ty)
    BY <1>16, <2>1, <2>2 DEF Users, Openers, TypeInv, Typed
  <2>4. \A o \in Types \ {ty} : Users(o) \subseteq Users(o)'
    BY <2>1, <2>2, VnodeAssumption DEF Users, Openers, TypeInv, Typed
  <2>5. /\ fufh'[ty].count = fufh[ty].count + 1
        /\ \A o \in Types \ {ty} : fufh'[o].count = fufh[o].count
    BY <2>1, <2>2 DEF TypeInv, Typed
  <2> QED
    BY <2>2, <2>3, <2>4, <2>5, BoundKept, TypedStep
    DEF NotOverused, TypeInv, Typed
<1>17. CASE t \in Threads /\ OpenGets(t)
  <2>1. \A ty \in Types : NotOverused(ty)
    BY <1>17, VnodeAssumption, SMTT(20)
    DEF OpenGets, Opening, Locked, Leave, Get, Opened, Valid, daemon, vnode,
        locks, thread, NotOverused, TypeInv, Typed, Placed, Users, Openers,
        Closed
  <2> QED BY <1>17, <2>1, BoundKept, TypedStep DEF TypeInv
<1>18. CASE t \in Threads /\ OpenFails(t)
  <2>1. \A ty \in Types : NotOverused(ty)
    BY <1>18, VnodeAssumption, SMTT(20)
    DEF OpenFails, Opening, Locked, Leave, GetRefused, GetCut, Opened, Valid,
        daemon, vnode, locks, thread, NotOverused, TypeInv, Typed, Placed,
        Users, Openers, Closed
  <2> QED BY <1>18, <2>1, BoundKept, TypedStep DEF TypeInv
<1>19. CASE t \in Threads /\ Close(t)
  <2>0. PICK ty : ty = file[t]
    OBVIOUS
  <2>1. /\ ty \in Types /\ file' = [file EXCEPT ![t] = NoOne]
        /\ \A o \in Types : o # NoOne
    BY <1>19, <2>0, VnodeAssumption DEF Close, Goto, TypeInv, Typed, Placed
  <2>2. CASE dead
    <3>1. fufh' = fufh /\ \A o \in Types : Users(o)' = Users(o)
      BY <1>19, <2>2 DEF Close, Users, TypeInv
    <3> QED BY <3>1, BoundKept, TypedStep
    DEF NotOverused, TypeInv, Typed
  <2>3. CASE ~dead /\ ~Valid(ty)
    <3>1. fufh' = fufh /\ ~dead' /\ fufh[ty].count = 0
      BY <1>19, <2>0, <2>1, <2>3 DEF Close, Valid, TypeInv, Typed
    <3>2. \A o \in Types \ {ty} : Users(o)' = Users(o)
      BY <2>0, <2>1, <2>3, <3>1 DEF Users, Openers, TypeInv, Typed
    <3> QED BY <3>1, <3>2, BoundKept, TypedStep, VnodeAssumption
        DEF NotOverused, TypeInv, Typed
  <2>4. CASE ~dead /\ Valid(ty)
    <3>1. fufh' = [fufh EXCEPT ![ty].count = @ - 1]
      BY <1>19, <2>0, <2>4 DEF Close
    <3>2. /\ fufh'[ty].count = fufh[ty].count - 1
          /\ \A o \in Types \ {ty} : fufh'[o].count = fufh[o].count
      BY <2>1, <3>1 DEF TypeInv, Typed
    <3>3. \A o \in Types \ {ty} : Users(o) \subseteq Users(o)'
      BY <2>0, <2>1, <2>4 DEF Users, Openers, TypeInv, Typed
    <3>4. CASE dead'
      <4>1. \A o \in Types : Users(o) \subseteq Users(o)'
        BY <3>4 DEF Users, Openers
      <4>2. \A o \in Types : fufh'[o].count <= fufh[o].count
        BY <2>1, <3>2 DEF TypeInv, Typed
      <4> QED BY <4>1, <4>2, BoundKept, TypedStep DEF NotOverused, TypeInv
    <3>5. CASE ~dead'
      <4>1. Users(ty)' = Users(ty) \ {t}
        BY <2>0, <2>1, <2>4, <3>5 DEF Users, Openers, TypeInv, Typed
      <4>2. \A o \in Types \ {ty} : fufh'[o].count <= fufh[o].count
        BY <3>2 DEF TypeInv, Typed
      <4>3. Typed /\ Typed' /\ CountsBounded
        BY TypedStep DEF TypeInv
      <4> QED BY <2>1, <3>2, <3>3, <4>1, <4>2, <4>3, BoundKept DEF NotOverused
    <3> QED BY <3>4, <3>5
  <2> QED BY <2>2, <2>3, <2>4
<1>20. CASE t \in Threads /\ MmapShared(t)
  <2>1. \A ty \in Types : NotOverused(ty)
    BY <1>20, VnodeAssumption, SMTT(20)
    DEF MmapShared, Locked, MayMap, Use, Map, Valid, daemon, vnode, locks,
        thread, NotOverused, TypeInv, Typed, Placed, Users, Openers, Closed
  <2> QED BY <1>20, <2>1, BoundKept, TypedStep DEF TypeInv
<1>21. CASE t \in Threads /\ MmapPreflight(t)
  <2>1. \A ty \in Types : NotOverused(ty)
    BY <1>21, VnodeAssumption, SMTT(20)
    DEF MmapPreflight, Goto, Locked, Map, Valid, daemon, vnode, locks,
        thread, NotOverused, TypeInv, Typed, Placed, Users, Openers, Closed
  <2> QED BY <1>21, <2>1, BoundKept, TypedStep DEF TypeInv
<1>22. CASE t \in Threads /\ MmapDead(t)
  <2>1. \A ty \in Types : NotOverused(ty)
    BY <1>22, VnodeAssumption, SMTT(20)
    DEF MmapDead, Goto, Locked, daemon, vnode, locks, thread, NotOverused,
        TypeInv, Typed, Placed, Users, Openers, Closed
  <2> QED BY <1>22, <2>1, BoundKept, TypedStep DEF TypeInv
<1>23. CASE t \in Threads /\ MmapPanics(t)
  <2>1. \A ty \in Types : NotOverused(ty)
    BY <1>23, VnodeAssumption, SMTT(20)
    DEF MmapPanics, Goto, Valid, daemon, vnode, locks, thread, NotOverused,
        TypeInv, Typed, Placed, Users, Openers, Closed
  <2> QED BY <1>23, <2>1, BoundKept, TypedStep DEF TypeInv
<1>24. CASE t \in Threads /\ MmapGets(t)
  <2>1. \A ty \in Types : NotOverused(ty)
    BY <1>24, VnodeAssumption, SMTT(20)
    DEF MmapGets, Goto, Get, Opened, Leave, Valid, daemon, vnode, locks,
        thread, NotOverused, TypeInv, Typed, Placed, Users, Openers, Closed
  <2> QED BY <1>24, <2>1, BoundKept, TypedStep DEF TypeInv
<1>25. CASE t \in Threads /\ MmapRetries(t)
  <2>1. \A ty \in Types : NotOverused(ty)
    BY <1>25, VnodeAssumption, SMTT(20)
    DEF MmapRetries, Goto, Map, MayMap, Use, Leave, Valid, daemon, vnode,
        locks, thread, NotOverused, TypeInv, Typed, Placed, Users, Openers,
        Closed
  <2> QED BY <1>25, <2>1, BoundKept, TypedStep DEF TypeInv
<1>26. CASE t \in Threads /\ MmapFails(t)
  <2>1. \A ty \in Types : NotOverused(ty)
    BY <1>26, VnodeAssumption, SMTT(20)
    DEF MmapFails, Goto, Map, Leave, GetRefused, GetCut, Opened, Valid,
        daemon, vnode, locks, thread, NotOverused, TypeInv, Typed, Placed,
        Users, Openers, Closed
  <2> QED BY <1>26, <2>1, BoundKept, TypedStep DEF TypeInv
<1>27. CASE t \in Threads /\ Munmap(t)
  <2>1. \A ty \in Types : NotOverused(ty)
    BY <1>27, VnodeAssumption, SMTT(20)
    DEF Munmap, Map, daemon, vnode, locks, thread, NotOverused, TypeInv,
        Typed, Placed, Users, Openers, Closed
  <2> QED BY <1>27, <2>1, BoundKept, TypedStep DEF TypeInv
<1>28. CASE Page
  <2>1. \A ty \in Types : NotOverused(ty)
    BY <1>28, VnodeAssumption, SMTT(20)
    DEF Page, Get, GetCut, Opened, Valid, daemon, vnode, locks, thread,
        NotOverused, TypeInv, Typed, Placed, Users, Openers, Closed
  <2> QED BY <1>28, <2>1, BoundKept, TypedStep DEF TypeInv
<1>29. CASE Inactive
  <2>1. \A ty \in Types : NotOverused(ty)
    BY <1>29, VnodeAssumption, SMTT(20)
    DEF Inactive, Referenced, Put, Reset, LeftOpen, daemon, vnode, locks,
        thread, NotOverused, TypeInv, Typed, Placed, Users, Openers, Closed
  <2> QED BY <1>29, <2>1, BoundKept, TypedStep DEF TypeInv
<1>30. CASE Reclaim
  <2>1. \A ty \in Types : NotOverused(ty)
    BY <1>30, VnodeAssumption, SMTT(20)
    DEF Reclaim, Referenced, Put, Reset, LeftOpen, ToForget, daemon, vnode,
        locks, thread, NotOverused, TypeInv, Typed, Placed, Users, Openers,
        Closed
  <2> QED BY <1>30, <2>1, BoundKept, TypedStep DEF TypeInv
<1>31. CASE Forget
  <2>1. \A ty \in Types : NotOverused(ty)
    BY <1>31, VnodeAssumption, SMTT(20)
    DEF Forget, daemon, vnode, locks, thread, NotOverused, TypeInv, Typed,
        Placed, Users, Openers, Closed
  <2> QED BY <1>31, <2>1, BoundKept, TypedStep DEF TypeInv
<1>32. CASE Die
  <2>1. \A ty \in Types : NotOverused(ty)
    BY <1>32, VnodeAssumption, SMTT(20)
    DEF Die, daemon, vnode, locks, thread, NotOverused, TypeInv, Typed,
        Placed, Users, Openers, Closed
  <2> QED BY <1>32, <2>1, BoundKept, TypedStep DEF TypeInv
<1> QED
  BY <1>1, <1>2, <1>3, <1>4, <1>5, <1>6, <1>7, <1>8, <1>9, <1>10, <1>11,
     <1>12, <1>13, <1>14, <1>15, <1>16, <1>17, <1>18, <1>19, <1>20, <1>21,
     <1>22, <1>23, <1>24, <1>25, <1>26, <1>27, <1>28, <1>29, <1>30, <1>31,
     <1>32
  DEF Step, ThreadStep

(* Only a creator is past a lookup that missed, and with one creator the   *)
(* name is still missing.                                                  *)
LEMMA MakingStep ==
  ASSUME TypeInv, HandleInv, NEW t, Step(t), OneCreator
  PROVE  Making'
<1>1. CASE t \in Threads /\ LookupMisses(t)
  BY <1>1, VnodeAssumption, SMTT(20)
  DEF LookupMisses, Goto, daemon, vnode, locks, thread, TypeInv, Typed,
      HandleInv, Making, Nonexistent, OneCreator
<1>2. CASE t \in Threads /\ LookupCached(t)
  BY <1>2, VnodeAssumption, SMTT(20)
  DEF LookupCached, Goto, daemon, vnode, locks, thread, TypeInv, Typed,
      HandleInv, Making, Nonexistent, OneCreator
<1>3. CASE t \in Threads /\ Lookup(t)
  BY <1>3, VnodeAssumption, SMTT(20)
  DEF Lookup, Goto, Created, daemon, vnode, locks, thread, TypeInv, Typed,
      HandleInv, Making, Nonexistent, OneCreator
<1>4. CASE t \in Threads /\ LookupFails(t)
  BY <1>4, VnodeAssumption, SMTT(20)
  DEF LookupFails, GivenBack, daemon, vnode, locks, thread, TypeInv, Typed,
      HandleInv, Making, Nonexistent, OneCreator
<1>5. CASE t \in Threads /\ LookupCut(t)
  BY <1>5, VnodeAssumption, SMTT(20)
  DEF LookupCut, daemon, vnode, locks, thread, TypeInv, Typed, HandleInv,
      Making, Nonexistent, OneCreator
<1>6. CASE t \in Threads /\ Create(t)
  BY <1>6, VnodeAssumption, SMTT(20)
  DEF Create, Goto, Creating, Get, Opened, Created, daemon, vnode, locks,
      thread, TypeInv, Typed, HandleInv, Making, Nonexistent, OneCreator
<1>7. CASE t \in Threads /\ CreateMknod(t)
  BY <1>7, VnodeAssumption, SMTT(20)
  DEF CreateMknod, Goto, Creating, Created, daemon, vnode, locks, thread,
      TypeInv, Typed, HandleInv, Making, Nonexistent, OneCreator
<1>8. CASE t \in Threads /\ CreateFails(t)
  BY <1>8, VnodeAssumption, SMTT(20)
  DEF CreateFails, Goto, Creating, daemon, vnode, locks, thread, TypeInv,
      Typed, HandleInv, Making, Nonexistent, OneCreator
<1>9. CASE t \in Threads /\ CreateCut(t)
  BY <1>9, VnodeAssumption, SMTT(20)
  DEF CreateCut, Goto, Creating, GetCut, Opened, daemon, vnode, locks,
      thread, TypeInv, Typed, HandleInv, Making, Nonexistent, OneCreator
<1>10. CASE t \in Threads /\ CreateDead(t)
  BY <1>10, VnodeAssumption, SMTT(20)
  DEF CreateDead, Goto, daemon, vnode, locks, thread, TypeInv, Typed,
      HandleInv, Making, Nonexistent, OneCreator
<1>11. CASE t \in Threads /\ CreateTooLate(t)
  BY <1>11, VnodeAssumption, SMTT(20)
  DEF CreateTooLate, Goto, daemon, vnode, locks, thread, TypeInv, Typed,
      HandleInv, Making, Nonexistent, OneCreator
<1>12. CASE t \in Threads /\ OpenDead(t)
  BY <1>12, VnodeAssumption, SMTT(20)
  DEF OpenDead, Locked, daemon, vnode, locks, thread, TypeInv, Typed,
      HandleInv, Making, Nonexistent, OneCreator
<1>13. CASE t \in Threads /\ OpenStashed(t)
  BY <1>13, VnodeAssumption, SMTT(20)
  DEF OpenStashed, Locked, daemon, vnode, locks, thread, TypeInv, Typed,
      HandleInv, Making, Nonexistent, OneCreator
<1>14. CASE t \in Threads /\ OpenSleeps(t)
  BY <1>14, VnodeAssumption, SMTT(20)
  DEF OpenSleeps, Locked, daemon, vnode, locks, thread, TypeInv, Typed,
      HandleInv, Making, Nonexistent, OneCreator
<1>15. CASE t \in Threads /\ OpenSignalled(t)
  BY <1>15, VnodeAssumption, SMTT(20)
  DEF OpenSignalled, Goto, Leave, daemon, vnode, locks, thread, TypeInv,
      Typed, HandleInv, Making, Nonexistent, OneCreator
<1>16. CASE t \in Threads /\ OpenShared(t)
  BY <1>16, VnodeAssumption, SMTT(20)
  DEF OpenShared, Opening, Locked, Leave, Use, Valid, daemon, vnode, locks,
      thread, TypeInv, Typed, HandleInv, Making, Nonexistent, OneCreator
<1>17. CASE t \in Threads /\ OpenGets(t)
  BY <1>17, VnodeAssumption, SMTT(20)
  DEF OpenGets, Opening, Locked, Leave, Get, Opened, Valid, daemon, vnode,
      locks, thread, TypeInv, Typed, HandleInv, Making, Nonexistent,
      OneCreator
<1>18. CASE t \in Threads /\ OpenFails(t)
  BY <1>18, VnodeAssumption, SMTT(20)
  DEF OpenFails, Opening, Locked, Leave, GetRefused, GetCut, Opened, Valid,
      daemon, vnode, locks, thread, TypeInv, Typed, HandleInv, Making,
      Nonexistent, OneCreator
<1>19. CASE t \in Threads /\ Close(t)
  BY <1>19, VnodeAssumption, SMTT(20)
  DEF Close, Goto, Locked, Put, LastUse, Valid, daemon, vnode, locks, thread,
      TypeInv, Typed, HandleInv, Making, Nonexistent, OneCreator
<1>20. CASE t \in Threads /\ MmapShared(t)
  BY <1>20, VnodeAssumption, SMTT(20)
  DEF MmapShared, Locked, MayMap, Use, Map, Valid, daemon, vnode, locks,
      thread, TypeInv, Typed, HandleInv, Making, Nonexistent, OneCreator
<1>21. CASE t \in Threads /\ MmapPreflight(t)
  BY <1>21, VnodeAssumption, SMTT(20)
  DEF MmapPreflight, Goto, Locked, Map, Valid, daemon, vnode, locks, thread,
      TypeInv, Typed, HandleInv, Making, Nonexistent, OneCreator
<1>22. CASE t \in Threads /\ MmapDead(t)
  BY <1>22, VnodeAssumption, SMTT(20)
  DEF MmapDead, Goto, Locked, daemon, vnode, locks, thread, TypeInv, Typed,
      HandleInv, Making, Nonexistent, OneCreator
<1>23. CASE t \in Threads /\ MmapPanics(t)
  BY <1>23, VnodeAssumption, SMTT(20)
  DEF MmapPanics, Goto, Valid, daemon, vnode, locks, thread, TypeInv, Typed,
      HandleInv, Making, Nonexistent, OneCreator
<1>24. CASE t \in Threads /\ MmapGets(t)
  BY <1>24, VnodeAssumption, SMTT(20)
  DEF MmapGets, Goto, Get, Opened, Leave, Valid, daemon, vnode, locks,
      thread, TypeInv, Typed, HandleInv, Making, Nonexistent, OneCreator
<1>25. CASE t \in Threads /\ MmapRetries(t)
  BY <1>25, VnodeAssumption, SMTT(20)
  DEF MmapRetries, Goto, Map, MayMap, Use, Leave, Valid, daemon, vnode,
      locks, thread, TypeInv, Typed, HandleInv, Making, Nonexistent,
      OneCreator
<1>26. CASE t \in Threads /\ MmapFails(t)
  BY <1>26, VnodeAssumption, SMTT(20)
  DEF MmapFails, Goto, Map, Leave, GetRefused, GetCut, Opened, Valid, daemon,
      vnode, locks, thread, TypeInv, Typed, HandleInv, Making, Nonexistent,
      OneCreator
<1>27. CASE t \in Threads /\ Munmap(t)
  BY <1>27, VnodeAssumption, SMTT(20)
  DEF Munmap, Map, daemon, vnode, locks, thread, TypeInv, Typed, HandleInv,
      Making, Nonexistent, OneCreator
<1>28. CASE Page
  BY <1>28, VnodeAssumption, SMTT(20)
  DEF Page, Get, GetCut, Opened, Valid, daemon, vnode, locks, thread,
      TypeInv, Typed, HandleInv, Making, Nonexistent, OneCreator
<1>29. CASE Inactive
  BY <1>29, VnodeAssumption, SMTT(20)
  DEF Inactive, Referenced, Put, Reset, LeftOpen, daemon, vnode, locks,
      thread, TypeInv, Typed, HandleInv, Making, Nonexistent, OneCreator
<1>30. CASE Reclaim
  BY <1>30, VnodeAssumption, SMTT(20)
  DEF Reclaim, Referenced, Put, Reset, LeftOpen, ToForget, daemon, vnode,
      locks, thread, TypeInv, Typed, HandleInv, Making, Nonexistent,
      OneCreator
<1>31. CASE Forget
  BY <1>31, VnodeAssumption, SMTT(20)
  DEF Forget, daemon, vnode, locks, thread, TypeInv, Typed, HandleInv,
      Making, Nonexistent, OneCreator
<1>32. CASE Die
  BY <1>32, VnodeAssumption, SMTT(20)
  DEF Die, daemon, vnode, locks, thread, TypeInv, Typed, HandleInv, Making,
      Nonexistent, OneCreator
<1> QED
  BY <1>1, <1>2, <1>3, <1>4, <1>5, <1>6, <1>7, <1>8, <1>9, <1>10, <1>11,
     <1>12, <1>13, <1>14, <1>15, <1>16, <1>17, <1>18, <1>19, <1>20, <1>21,
     <1>22, <1>23, <1>24, <1>25, <1>26, <1>27, <1>28, <1>29, <1>30, <1>31,
     <1>32
  DEF Step, ThreadStep

(* A file that is not there has no handle, no vnode and no user.           *)
LEMMA NonexistentStep ==
  ASSUME TypeInv, HandleInv, NEW t, Step(t), OneCreator
  PROVE  Nonexistent'
<1>1. CASE t \in Threads /\ LookupMisses(t)
  BY <1>1, VnodeAssumption, SMTT(20)
  DEF LookupMisses, Goto, daemon, vnode, locks, thread, TypeInv, Typed, PCs,
      Placed, HandleInv, Making, Nonexistent, InTheMaking, Valid
<1>2. CASE t \in Threads /\ LookupCached(t)
  BY <1>2, VnodeAssumption, SMTT(20)
  DEF LookupCached, Goto, daemon, vnode, locks, thread, TypeInv, Typed, PCs,
      Placed, HandleInv, Making, Nonexistent, InTheMaking, Valid
<1>3. CASE t \in Threads /\ Lookup(t)
  BY <1>3, VnodeAssumption, SMTT(20)
  DEF Lookup, Goto, Created, daemon, vnode, locks, thread, TypeInv, Typed,
      PCs, Placed, HandleInv, Making, Nonexistent, InTheMaking, Valid
<1>4. CASE t \in Threads /\ LookupFails(t)
  BY <1>4, VnodeAssumption, SMTT(20)
  DEF LookupFails, GivenBack, daemon, vnode, locks, thread, TypeInv, Typed,
      PCs, Placed, HandleInv, Making, Nonexistent, InTheMaking, Valid
<1>5. CASE t \in Threads /\ LookupCut(t)
  BY <1>5, VnodeAssumption, SMTT(20)
  DEF LookupCut, daemon, vnode, locks, thread, TypeInv, Typed, PCs, Placed,
      HandleInv, Making, Nonexistent, InTheMaking, Valid
<1>6. CASE t \in Threads /\ Create(t)
  BY <1>6, VnodeAssumption, SMTT(20)
  DEF Create, Goto, Creating, Get, Opened, Created, daemon, vnode, locks,
      thread, TypeInv, Typed, PCs, Placed, HandleInv, Making, Nonexistent,
      InTheMaking, Valid
<1>7. CASE t \in Threads /\ CreateMknod(t)
  BY <1>7, VnodeAssumption, SMTT(20)
  DEF CreateMknod, Goto, Creating, Created, daemon, vnode, locks, thread,
      TypeInv, Typed, PCs, Placed, HandleInv, Making, Nonexistent,
      InTheMaking, Valid
<1>8. CASE t \in Threads /\ CreateFails(t)
  BY <1>8, VnodeAssumption, SMTT(20)
  DEF CreateFails, Goto, Creating, daemon, vnode, locks, thread, TypeInv,
      Typed, PCs, Placed, HandleInv, Making, Nonexistent, InTheMaking, Valid
<1>9. CASE t \in Threads /\ CreateCut(t)
  BY <1>9, VnodeAssumption, SMTT(20)
  DEF CreateCut, Goto, Creating, GetCut, Opened, daemon, vnode, locks,
      thread, TypeInv, Typed, PCs, Placed, HandleInv, Making, Nonexistent,
      InTheMaking, Valid
<1>10. CASE t \in Threads /\ CreateDead(t)
  BY <1>10, VnodeAssumption, SMTT(20)
  DEF CreateDead, Goto, daemon, vnode, locks, thread, TypeInv, Typed, PCs,
      Placed, HandleInv, Making, Nonexistent, InTheMaking, Valid
<1>11. CASE t \in Threads /\ CreateTooLate(t)
  BY <1>11, VnodeAssumption, SMTT(20)
  DEF CreateTooLate, Goto, daemon, vnode, locks, thread, TypeInv, Typed, PCs,
      Placed, HandleInv, Making, Nonexistent, InTheMaking, Valid
<1>12. CASE t \in Threads /\ OpenDead(t)
  BY <1>12, VnodeAssumption, SMTT(20)
  DEF OpenDead, Locked, daemon, vnode, locks, thread, TypeInv, Typed, PCs,
      Placed, HandleInv, Making, Nonexistent, InTheMaking, Valid
<1>13. CASE t \in Threads /\ OpenStashed(t)
  BY <1>13, VnodeAssumption, SMTT(20)
  DEF OpenStashed, Locked, daemon, vnode, locks, thread, TypeInv, Typed, PCs,
      Placed, HandleInv, Making, Nonexistent, InTheMaking, Valid
<1>14. CASE t \in Threads /\ OpenSleeps(t)
  BY <1>14, VnodeAssumption, SMTT(20)
  DEF OpenSleeps, Locked, daemon, vnode, locks, thread, TypeInv, Typed, PCs,
      Placed, HandleInv, Making, Nonexistent, InTheMaking, Valid
<1>15. CASE t \in Threads /\ OpenSignalled(t)
  BY <1>15, VnodeAssumption, SMTT(20)
  DEF OpenSignalled, Goto, Leave, daemon, vnode, locks, thread, TypeInv,
      Typed, PCs, Placed, HandleInv, Making, Nonexistent, InTheMaking, Valid
<1>16. CASE t \in Threads /\ OpenShared(t)
  BY <1>16, VnodeAssumption, SMTT(20)
  DEF OpenShared, Opening, Locked, Leave, Use, Valid, daemon, vnode, locks,
      thread, TypeInv, Typed, PCs, Placed, HandleInv, Making, Nonexistent,
      InTheMaking
<1>17. CASE t \in Threads /\ OpenGets(t)
  BY <1>17, VnodeAssumption, SMTT(20)
  DEF OpenGets, Opening, Locked, Leave, Get, Opened, Valid, daemon, vnode,
      locks, thread, TypeInv, Typed, PCs, Placed, HandleInv, Making,
      Nonexistent, InTheMaking
<1>18. CASE t \in Threads /\ OpenFails(t)
  BY <1>18, VnodeAssumption, SMTT(20)
  DEF OpenFails, Opening, Locked, Leave, GetRefused, GetCut, Opened, Valid,
      daemon, vnode, locks, thread, TypeInv, Typed, PCs, Placed, HandleInv,
      Making, Nonexistent, InTheMaking
<1>19. CASE t \in Threads /\ Close(t)
  BY <1>19, VnodeAssumption, SMTT(20)
  DEF Close, Goto, Locked, Put, LastUse, Valid, daemon, vnode, locks, thread,
      TypeInv, Typed, PCs, Placed, HandleInv, Making, Nonexistent,
      InTheMaking
<1>20. CASE t \in Threads /\ MmapShared(t)
  BY <1>20, VnodeAssumption, SMTT(20)
  DEF MmapShared, Locked, MayMap, Use, Map, Valid, daemon, vnode, locks,
      thread, TypeInv, Typed, PCs, Placed, HandleInv, Making, Nonexistent,
      InTheMaking
<1>21. CASE t \in Threads /\ MmapPreflight(t)
  BY <1>21, VnodeAssumption, SMTT(20)
  DEF MmapPreflight, Goto, Locked, Map, Valid, daemon, vnode, locks, thread,
      TypeInv, Typed, PCs, Placed, HandleInv, Making, Nonexistent,
      InTheMaking
<1>22. CASE t \in Threads /\ MmapDead(t)
  BY <1>22, VnodeAssumption, SMTT(20)
  DEF MmapDead, Goto, Locked, daemon, vnode, locks, thread, TypeInv, Typed,
      PCs, Placed, HandleInv, Making, Nonexistent, InTheMaking, Valid
<1>23. CASE t \in Threads /\ MmapPanics(t)
  BY <1>23, VnodeAssumption, SMTT(20)
  DEF MmapPanics, Goto, Valid, daemon, vnode, locks, thread, TypeInv, Typed,
      PCs, Placed, HandleInv, Making, Nonexistent, InTheMaking
<1>24. CASE t \in Threads /\ MmapGets(t)
  BY <1>24, VnodeAssumption, SMTT(20)
  DEF MmapGets, Goto, Get, Opened, Leave, Valid, daemon, vnode, locks,
      thread, TypeInv, Typed, PCs, Placed, HandleInv, Making, Nonexistent,
      InTheMaking
<1>25. CASE t \in Threads /\ MmapRetries(t)
  BY <1>25, VnodeAssumption, SMTT(20)
  DEF MmapRetries, Goto, Map, MayMap, Use, Leave, Valid, daemon, vnode,
      locks, thread, TypeInv, Typed, PCs, Placed, HandleInv, Making,
      Nonexistent, InTheMaking
<1>26. CASE t \in Threads /\ MmapFails(t)
  BY <1>26, VnodeAssumption, SMTT(20)
  DEF MmapFails, Goto, Map, Leave, GetRefused, GetCut, Opened, Valid, daemon,
      vnode, locks, thread, TypeInv, Typed, PCs, Placed, HandleInv, Making,
      Nonexistent, InTheMaking
<1>27. CASE t \in Threads /\ Munmap(t)
  BY <1>27, VnodeAssumption, SMTT(20)
  DEF Munmap, Map, daemon, vnode, locks, thread, TypeInv, Typed, PCs, Placed,
      HandleInv, Making, Nonexistent, InTheMaking, Valid
<1>28. CASE Page
  BY <1>28, VnodeAssumption, SMTT(20)
  DEF Page, Get, GetCut, Opened, Valid, daemon, vnode, locks, thread,
      TypeInv, Typed, PCs, Placed, HandleInv, Making, Nonexistent,
      InTheMaking
<1>29. CASE Inactive
  BY <1>29, VnodeAssumption, SMTT(20)
  DEF Inactive, Referenced, Put, Reset, LeftOpen, daemon, vnode, locks,
      thread, TypeInv, Typed, PCs, Placed, HandleInv, Making, Nonexistent,
      InTheMaking, Valid
<1>30. CASE Reclaim
  BY <1>30, VnodeAssumption, SMTT(20)
  DEF Reclaim, Referenced, Put, Reset, LeftOpen, ToForget, daemon, vnode,
      locks, thread, TypeInv, Typed, PCs, Placed, HandleInv, Making,
      Nonexistent, InTheMaking, Valid
<1>31. CASE Forget
  BY <1>31, VnodeAssumption, SMTT(20)
  DEF Forget, daemon, vnode, locks, thread, TypeInv, Typed, PCs, Placed,
      HandleInv, Making, Nonexistent, InTheMaking, Valid
<1>32. CASE Die
  BY <1>32, VnodeAssumption, SMTT(20)
  DEF Die, daemon, vnode, locks, thread, TypeInv, Typed, PCs, Placed,
      HandleInv, Making, Nonexistent, InTheMaking, Valid
<1> QED
  BY <1>1, <1>2, <1>3, <1>4, <1>5, <1>6, <1>7, <1>8, <1>9, <1>10, <1>11,
     <1>12, <1>13, <1>14, <1>15, <1>16, <1>17, <1>18, <1>19, <1>20, <1>21,
     <1>22, <1>23, <1>24, <1>25, <1>26, <1>27, <1>28, <1>29, <1>30, <1>31,
     <1>32
  DEF Step, ThreadStep

(* From the creation to the open of the creator the stashed handle is alone:*)
(* all others sleep or fail.                                               *)
LEMMA InTheMakingStep ==
  ASSUME TypeInv, HandleInv, NEW t, Step(t), OneCreator
  PROVE  InTheMaking'
<1>1. CASE t \in Threads /\ LookupMisses(t)
  BY <1>1, VnodeAssumption, SMTT(20)
  DEF LookupMisses, Goto, daemon, vnode, locks, thread, TypeInv, Typed, PCs,
      Placed, HandleInv, Making, Nonexistent, InTheMaking, OneCreator, Valid,
      Types
<1>2. CASE t \in Threads /\ LookupCached(t)
  BY <1>2, VnodeAssumption, SMTT(20)
  DEF LookupCached, Goto, daemon, vnode, locks, thread, TypeInv, Typed, PCs,
      Placed, HandleInv, Making, Nonexistent, InTheMaking, OneCreator, Valid,
      Types
<1>3. CASE t \in Threads /\ Lookup(t)
  BY <1>3, VnodeAssumption, SMTT(20)
  DEF Lookup, Goto, Created, daemon, vnode, locks, thread, TypeInv, Typed,
      PCs, Placed, HandleInv, Making, Nonexistent, InTheMaking, OneCreator,
      Valid, Types
<1>4. CASE t \in Threads /\ LookupFails(t)
  BY <1>4, VnodeAssumption, SMTT(20)
  DEF LookupFails, GivenBack, daemon, vnode, locks, thread, TypeInv, Typed,
      PCs, Placed, HandleInv, Making, Nonexistent, InTheMaking, OneCreator,
      Valid, Types
<1>5. CASE t \in Threads /\ LookupCut(t)
  BY <1>5, VnodeAssumption, SMTT(20)
  DEF LookupCut, daemon, vnode, locks, thread, TypeInv, Typed, PCs, Placed,
      HandleInv, Making, Nonexistent, InTheMaking, OneCreator, Valid, Types
<1>6. CASE t \in Threads /\ Create(t)
  BY <1>6, VnodeAssumption, SMTT(20)
  DEF Create, Goto, Creating, Get, Opened, Created, daemon, vnode, locks,
      thread, TypeInv, Typed, PCs, Placed, HandleInv, Making, Nonexistent,
      InTheMaking, OneCreator, Valid, Types
<1>7. CASE t \in Threads /\ CreateMknod(t)
  BY <1>7, VnodeAssumption, SMTT(20)
  DEF CreateMknod, Goto, Creating, Created, daemon, vnode, locks, thread,
      TypeInv, Typed, PCs, Placed, HandleInv, Making, Nonexistent,
      InTheMaking, OneCreator, Valid, Types
<1>8. CASE t \in Threads /\ CreateFails(t)
  BY <1>8, VnodeAssumption, SMTT(20)
  DEF CreateFails, Goto, Creating, daemon, vnode, locks, thread, TypeInv,
      Typed, PCs, Placed, HandleInv, Making, Nonexistent, InTheMaking,
      OneCreator, Valid, Types
<1>9. CASE t \in Threads /\ CreateCut(t)
  BY <1>9, VnodeAssumption, SMTT(20)
  DEF CreateCut, Goto, Creating, GetCut, Opened, daemon, vnode, locks,
      thread, TypeInv, Typed, PCs, Placed, HandleInv, Making, Nonexistent,
      InTheMaking, OneCreator, Valid, Types
<1>10. CASE t \in Threads /\ CreateDead(t)
  BY <1>10, VnodeAssumption, SMTT(20)
  DEF CreateDead, Goto, daemon, vnode, locks, thread, TypeInv, Typed, PCs,
      Placed, HandleInv, Making, Nonexistent, InTheMaking, OneCreator, Valid,
      Types
<1>11. CASE t \in Threads /\ CreateTooLate(t)
  BY <1>11, VnodeAssumption, SMTT(20)
  DEF CreateTooLate, Goto, daemon, vnode, locks, thread, TypeInv, Typed, PCs,
      Placed, HandleInv, Making, Nonexistent, InTheMaking, OneCreator, Valid,
      Types
<1>12. CASE t \in Threads /\ OpenDead(t)
  BY <1>12, VnodeAssumption, SMTT(20)
  DEF OpenDead, Locked, daemon, vnode, locks, thread, TypeInv, Typed, PCs,
      Placed, HandleInv, Making, Nonexistent, InTheMaking, OneCreator, Valid,
      Types
<1>13. CASE t \in Threads /\ OpenStashed(t)
  BY <1>13, VnodeAssumption, SMTT(20)
  DEF OpenStashed, Locked, daemon, vnode, locks, thread, TypeInv, Typed, PCs,
      Placed, HandleInv, Making, Nonexistent, InTheMaking, OneCreator, Valid,
      Types
<1>14. CASE t \in Threads /\ OpenSleeps(t)
  BY <1>14, VnodeAssumption, SMTT(20)
  DEF OpenSleeps, Locked, daemon, vnode, locks, thread, TypeInv, Typed, PCs,
      Placed, HandleInv, Making, Nonexistent, InTheMaking, OneCreator, Valid,
      Types
<1>15. CASE t \in Threads /\ OpenSignalled(t)
  BY <1>15, VnodeAssumption, SMTT(20)
  DEF OpenSignalled, Goto, Leave, daemon, vnode, locks, thread, TypeInv,
      Typed, PCs, Placed, HandleInv, Making, Nonexistent, InTheMaking,
      OneCreator, Valid, Types
<1>16. CASE t \in Threads /\ OpenShared(t)
  BY <1>16, VnodeAssumption, SMTT(20)
  DEF OpenShared, Opening, Locked, Leave, Use, Valid, daemon, vnode, locks,
      thread, TypeInv, Typed, PCs, Placed, HandleInv, Making, Nonexistent,
      InTheMaking, OneCreator, Types
<1>17. CASE t \in Threads /\ OpenGets(t)
  BY <1>17, VnodeAssumption, SMTT(20)
  DEF OpenGets, Opening, Locked, Leave, Get, Opened, Valid, daemon, vnode,
      locks, thread, TypeInv, Typed, PCs, Placed, HandleInv, Making,
      Nonexistent, InTheMaking, OneCreator, Types
<1>18. CASE t \in Threads /\ OpenFails(t)
  BY <1>18, VnodeAssumption, SMTT(20)
  DEF OpenFails, Opening, Locked, Leave, GetRefused, GetCut, Opened, Valid,
      daemon, vnode, locks, thread, TypeInv, Typed, PCs, Placed, HandleInv,
      Making, Nonexistent, InTheMaking, OneCreator, Types
<1>19. CASE t \in Threads /\ Close(t)
  BY <1>19, VnodeAssumption, SMTT(20)
  DEF Close, Goto, Locked, Put, LastUse, Valid, daemon, vnode, locks, thread,
      TypeInv, Typed, PCs, Placed, HandleInv, Making, Nonexistent,
      InTheMaking, OneCreator, Types
<1>20. CASE t \in Threads /\ MmapShared(t)
  BY <1>20, VnodeAssumption, SMTT(20)
  DEF MmapShared, Locked, MayMap, Use, Map, Valid, daemon, vnode, locks,
      thread, TypeInv, Typed, PCs, Placed, HandleInv, Making, Nonexistent,
      InTheMaking, OneCreator, Types
<1>21. CASE t \in Threads /\ MmapPreflight(t)
  BY <1>21, VnodeAssumption, SMTT(20)
  DEF MmapPreflight, Goto, Locked, Map, Valid, daemon, vnode, locks, thread,
      TypeInv, Typed, PCs, Placed, HandleInv, Making, Nonexistent,
      InTheMaking, OneCreator, Types
<1>22. CASE t \in Threads /\ MmapDead(t)
  BY <1>22, VnodeAssumption, SMTT(20)
  DEF MmapDead, Goto, Locked, daemon, vnode, locks, thread, TypeInv, Typed,
      PCs, Placed, HandleInv, Making, Nonexistent, InTheMaking, OneCreator,
      Valid, Types
<1>23. CASE t \in Threads /\ MmapPanics(t)
  BY <1>23, VnodeAssumption, SMTT(20)
  DEF MmapPanics, Goto, Valid, daemon, vnode, locks, thread, TypeInv, Typed,
      PCs, Placed, HandleInv, Making, Nonexistent, InTheMaking, OneCreator,
      Types
<1>24. CASE t \in Threads /\ MmapGets(t)
  BY <1>24, VnodeAssumption, SMTT(20)
  DEF MmapGets, Goto, Get, Opened, Leave, Valid, daemon, vnode, locks,
      thread, TypeInv, Typed, PCs, Placed, HandleInv, Making, Nonexistent,
      InTheMaking, OneCreator, Types
<1>25. CASE t \in Threads /\ MmapRetries(t)
  BY <1>25, VnodeAssumption, SMTT(20)
  DEF MmapRetries, Goto, Map, MayMap, Use, Leave, Valid, daemon, vnode,
      locks, thread, TypeInv, Typed, PCs, Placed, HandleInv, Making,
      Nonexistent, InTheMaking, OneCreator, Types
<1>26. CASE t \in Threads /\ MmapFails(t)
  BY <1>26, VnodeAssumption, SMTT(20)
  DEF MmapFails, Goto, Map, Leave, GetRefused, GetCut, Opened, Valid, daemon,
      vnode, locks, thread, TypeInv, Typed, PCs, Placed, HandleInv, Making,
      Nonexistent, InTheMaking, OneCreator, Types
<1>27. CASE t \in Threads /\ Munmap(t)
  BY <1>27, VnodeAssumption, SMTT(20)
  DEF Munmap, Map, daemon, vnode, locks, thread, TypeInv, Typed, PCs, Placed,
      HandleInv, Making, Nonexistent, InTheMaking, OneCreator, Valid, Types
<1>28. CASE Page
  BY <1>28, VnodeAssumption, SMTT(20)
  DEF Page, Get, GetCut, Opened, Valid, daemon, vnode, locks, thread,
      TypeInv, Typed, PCs, Placed, HandleInv, Making, Nonexistent,
      InTheMaking, OneCreator, Types
<1>29. CASE Inactive
  BY <1>29, VnodeAssumption, SMTT(20)
  DEF Inactive, Referenced, Put, Reset, LeftOpen, daemon, vnode, locks,
      thread, TypeInv, Typed, PCs, Placed, HandleInv, Making, Nonexistent,
      InTheMaking, OneCreator, Valid, Types
<1>30. CASE Reclaim
  BY <1>30, VnodeAssumption, SMTT(20)
  DEF Reclaim, Referenced, Put, Reset, LeftOpen, ToForget, daemon, vnode,
      locks, thread, TypeInv, Typed, PCs, Placed, HandleInv, Making,
      Nonexistent, InTheMaking, OneCreator, Valid, Types
<1>31. CASE Forget
  BY <1>31, VnodeAssumption, SMTT(20)
  DEF Forget, daemon, vnode, locks, thread, TypeInv, Typed, PCs, Placed,
      HandleInv, Making, Nonexistent, InTheMaking, OneCreator, Valid, Types
<1>32. CASE Die
  BY <1>32, VnodeAssumption, SMTT(20)
  DEF Die, daemon, vnode, locks, thread, TypeInv, Typed, PCs, Placed,
      HandleInv, Making, Nonexistent, InTheMaking, OneCreator, Valid, Types
<1> QED
  BY <1>1, <1>2, <1>3, <1>4, <1>5, <1>6, <1>7, <1>8, <1>9, <1>10, <1>11,
     <1>12, <1>13, <1>14, <1>15, <1>16, <1>17, <1>18, <1>19, <1>20, <1>21,
     <1>22, <1>23, <1>24, <1>25, <1>26, <1>27, <1>28, <1>29, <1>30, <1>31,
     <1>32
  DEF Step, ThreadStep

(* A panic in mmap finds the slot taken.                                   *)
LEMMA PanicStep ==
  ASSUME TypeInv, HandleInv, NEW t, Step(t), OneCreator
  PROVE  ~dead' => PanicValid'
<1>1. CASE t \in Threads /\ LookupMisses(t)
  BY <1>1, VnodeAssumption, SMTT(20)
  DEF LookupMisses, Goto, daemon, vnode, locks, thread, TypeInv, Typed, PCs,
      Placed, HandleInv, PanicValid, Making, Nonexistent, InTheMaking, Valid,
      Types
<1>2. CASE t \in Threads /\ LookupCached(t)
  BY <1>2, VnodeAssumption, SMTT(20)
  DEF LookupCached, Goto, daemon, vnode, locks, thread, TypeInv, Typed, PCs,
      Placed, HandleInv, PanicValid, Making, Nonexistent, InTheMaking, Valid,
      Types
<1>3. CASE t \in Threads /\ Lookup(t)
  BY <1>3, VnodeAssumption, SMTT(20)
  DEF Lookup, Goto, Created, daemon, vnode, locks, thread, TypeInv, Typed,
      PCs, Placed, HandleInv, PanicValid, Making, Nonexistent, InTheMaking,
      Valid, Types
<1>4. CASE t \in Threads /\ LookupFails(t)
  BY <1>4, VnodeAssumption, SMTT(20)
  DEF LookupFails, GivenBack, daemon, vnode, locks, thread, TypeInv, Typed,
      PCs, Placed, HandleInv, PanicValid, Making, Nonexistent, InTheMaking,
      Valid, Types
<1>5. CASE t \in Threads /\ LookupCut(t)
  BY <1>5, VnodeAssumption, SMTT(20)
  DEF LookupCut, daemon, vnode, locks, thread, TypeInv, Typed, PCs, Placed,
      HandleInv, PanicValid, Making, Nonexistent, InTheMaking, Valid, Types
<1>6. CASE t \in Threads /\ Create(t)
  BY <1>6, VnodeAssumption, SMTT(20)
  DEF Create, Goto, Creating, Get, Opened, Created, daemon, vnode, locks,
      thread, TypeInv, Typed, PCs, Placed, HandleInv, PanicValid, Making,
      Nonexistent, InTheMaking, Valid, Types
<1>7. CASE t \in Threads /\ CreateMknod(t)
  BY <1>7, VnodeAssumption, SMTT(20)
  DEF CreateMknod, Goto, Creating, Created, daemon, vnode, locks, thread,
      TypeInv, Typed, PCs, Placed, HandleInv, PanicValid, Making,
      Nonexistent, InTheMaking, Valid, Types
<1>8. CASE t \in Threads /\ CreateFails(t)
  BY <1>8, VnodeAssumption, SMTT(20)
  DEF CreateFails, Goto, Creating, daemon, vnode, locks, thread, TypeInv,
      Typed, PCs, Placed, HandleInv, PanicValid, Making, Nonexistent,
      InTheMaking, Valid, Types
<1>9. CASE t \in Threads /\ CreateCut(t)
  BY <1>9, VnodeAssumption, SMTT(20)
  DEF CreateCut, Goto, Creating, GetCut, Opened, daemon, vnode, locks,
      thread, TypeInv, Typed, PCs, Placed, HandleInv, PanicValid, Making,
      Nonexistent, InTheMaking, Valid, Types
<1>10. CASE t \in Threads /\ CreateDead(t)
  BY <1>10, VnodeAssumption, SMTT(20)
  DEF CreateDead, Goto, daemon, vnode, locks, thread, TypeInv, Typed, PCs,
      Placed, HandleInv, PanicValid, Making, Nonexistent, InTheMaking, Valid,
      Types
<1>11. CASE t \in Threads /\ CreateTooLate(t)
  BY <1>11, VnodeAssumption, SMTT(20)
  DEF CreateTooLate, Goto, daemon, vnode, locks, thread, TypeInv, Typed, PCs,
      Placed, HandleInv, PanicValid, Making, Nonexistent, InTheMaking, Valid,
      Types
<1>12. CASE t \in Threads /\ OpenDead(t)
  BY <1>12, VnodeAssumption, SMTT(20)
  DEF OpenDead, Locked, daemon, vnode, locks, thread, TypeInv, Typed, PCs,
      Placed, HandleInv, PanicValid, Making, Nonexistent, InTheMaking, Valid,
      Types
<1>13. CASE t \in Threads /\ OpenStashed(t)
  BY <1>13, VnodeAssumption, SMTT(20)
  DEF OpenStashed, Locked, daemon, vnode, locks, thread, TypeInv, Typed, PCs,
      Placed, HandleInv, PanicValid, Making, Nonexistent, InTheMaking, Valid,
      Types
<1>14. CASE t \in Threads /\ OpenSleeps(t)
  BY <1>14, VnodeAssumption, SMTT(20)
  DEF OpenSleeps, Locked, daemon, vnode, locks, thread, TypeInv, Typed, PCs,
      Placed, HandleInv, PanicValid, Making, Nonexistent, InTheMaking, Valid,
      Types
<1>15. CASE t \in Threads /\ OpenSignalled(t)
  BY <1>15, VnodeAssumption, SMTT(20)
  DEF OpenSignalled, Goto, Leave, daemon, vnode, locks, thread, TypeInv,
      Typed, PCs, Placed, HandleInv, PanicValid, Making, Nonexistent,
      InTheMaking, Valid, Types
<1>16. CASE t \in Threads /\ OpenShared(t)
  BY <1>16, VnodeAssumption, SMTT(20)
  DEF OpenShared, Opening, Locked, Leave, Use, Valid, daemon, vnode, locks,
      thread, TypeInv, Typed, PCs, Placed, HandleInv, PanicValid, Making,
      Nonexistent, InTheMaking, Types
<1>17. CASE t \in Threads /\ OpenGets(t)
  BY <1>17, VnodeAssumption, SMTT(20)
  DEF OpenGets, Opening, Locked, Leave, Get, Opened, Valid, daemon, vnode,
      locks, thread, TypeInv, Typed, PCs, Placed, HandleInv, PanicValid,
      Making, Nonexistent, InTheMaking, Types
<1>18. CASE t \in Threads /\ OpenFails(t)
  BY <1>18, VnodeAssumption, SMTT(20)
  DEF OpenFails, Opening, Locked, Leave, GetRefused, GetCut, Opened, Valid,
      daemon, vnode, locks, thread, TypeInv, Typed, PCs, Placed, HandleInv,
      PanicValid, Making, Nonexistent, InTheMaking, Types
<1>19. CASE t \in Threads /\ Close(t)
  BY <1>19, VnodeAssumption, SMTT(20)
  DEF Close, Goto, Locked, Put, LastUse, Valid, daemon, vnode, locks, thread,
      TypeInv, Typed, PCs, Placed, HandleInv, PanicValid, Making,
      Nonexistent, InTheMaking, Types
<1>20. CASE t \in Threads /\ MmapShared(t)
  BY <1>20, VnodeAssumption, SMTT(20)
  DEF MmapShared, Locked, MayMap, Use, Map, Valid, daemon, vnode, locks,
      thread, TypeInv, Typed, PCs, Placed, HandleInv, PanicValid, Making,
      Nonexistent, InTheMaking, Types
<1>21. CASE t \in Threads /\ MmapPreflight(t)
  BY <1>21, VnodeAssumption, SMTT(20)
  DEF MmapPreflight, Goto, Locked, Map, Valid, daemon, vnode, locks, thread,
      TypeInv, Typed, PCs, Placed, HandleInv, PanicValid, Making,
      Nonexistent, InTheMaking, Types
<1>22. CASE t \in Threads /\ MmapDead(t)
  BY <1>22, VnodeAssumption, SMTT(20)
  DEF MmapDead, Goto, Locked, daemon, vnode, locks, thread, TypeInv, Typed,
      PCs, Placed, HandleInv, PanicValid, Making, Nonexistent, InTheMaking,
      Valid, Types
<1>23. CASE t \in Threads /\ MmapPanics(t)
  BY <1>23, VnodeAssumption, SMTT(20)
  DEF MmapPanics, Goto, Valid, daemon, vnode, locks, thread, TypeInv, Typed,
      PCs, Placed, HandleInv, PanicValid, Making, Nonexistent, InTheMaking,
      Types
<1>24. CASE t \in Threads /\ MmapGets(t)
  BY <1>24, VnodeAssumption, SMTT(20)
  DEF MmapGets, Goto, Get, Opened, Leave, Valid, daemon, vnode, locks,
      thread, TypeInv, Typed, PCs, Placed, HandleInv, PanicValid, Making,
      Nonexistent, InTheMaking, Types
<1>25. CASE t \in Threads /\ MmapRetries(t)
  BY <1>25, VnodeAssumption, SMTT(20)
  DEF MmapRetries, Goto, Map, MayMap, Use, Leave, Valid, daemon, vnode,
      locks, thread, TypeInv, Typed, PCs, Placed, HandleInv, PanicValid,
      Making, Nonexistent, InTheMaking, Types
<1>26. CASE t \in Threads /\ MmapFails(t)
  BY <1>26, VnodeAssumption, SMTT(20)
  DEF MmapFails, Goto, Map, Leave, GetRefused, GetCut, Opened, Valid, daemon,
      vnode, locks, thread, TypeInv, Typed, PCs, Placed, HandleInv,
      PanicValid, Making, Nonexistent, InTheMaking, Types
<1>27. CASE t \in Threads /\ Munmap(t)
  BY <1>27, VnodeAssumption, SMTT(20)
  DEF Munmap, Map, daemon, vnode, locks, thread, TypeInv, Typed, PCs, Placed,
      HandleInv, PanicValid, Making, Nonexistent, InTheMaking, Valid, Types
<1>28. CASE Page
  BY <1>28, VnodeAssumption, SMTT(20)
  DEF Page, Get, GetCut, Opened, Valid, daemon, vnode, locks, thread,
      TypeInv, Typed, PCs, Placed, HandleInv, PanicValid, Making,
      Nonexistent, InTheMaking, Types
<1>29. CASE Inactive
  BY <1>29, VnodeAssumption, SMTT(20)
  DEF Inactive, Referenced, Put, Reset, LeftOpen, daemon, vnode, locks,
      thread, TypeInv, Typed, PCs, Placed, HandleInv, PanicValid, Making,
      Nonexistent, InTheMaking, Valid, Types
<1>30. CASE Reclaim
  BY <1>30, VnodeAssumption, SMTT(20)
  DEF Reclaim, Referenced, Put, Reset, LeftOpen, ToForget, daemon, vnode,
      locks, thread, TypeInv, Typed, PCs, Placed, HandleInv, PanicValid,
      Making, Nonexistent, InTheMaking, Valid, Types
<1>31. CASE Forget
  BY <1>31, VnodeAssumption, SMTT(20)
  DEF Forget, daemon, vnode, locks, thread, TypeInv, Typed, PCs, Placed,
      HandleInv, PanicValid, Making, Nonexistent, InTheMaking, Valid, Types
<1>32. CASE Die
  BY <1>32, VnodeAssumption, SMTT(20)
  DEF Die, daemon, vnode, locks, thread, TypeInv, Typed, PCs, Placed,
      HandleInv, PanicValid, Making, Nonexistent, InTheMaking, Valid, Types
<1> QED
  BY <1>1, <1>2, <1>3, <1>4, <1>5, <1>6, <1>7, <1>8, <1>9, <1>10, <1>11,
     <1>12, <1>13, <1>14, <1>15, <1>16, <1>17, <1>18, <1>19, <1>20, <1>21,
     <1>22, <1>23, <1>24, <1>25, <1>26, <1>27, <1>28, <1>29, <1>30, <1>31,
     <1>32
  DEF Step, ThreadStep

(* Opens, closes and mappings are counted as they come and go.             *)
LEMMA CoverStep ==
  ASSUME TypeInv, HandleInv, NEW t, Step(t), OneCreator
  PROVE  ~dead' => Counted'
<1>1. CASE t \in Threads /\ LookupMisses(t)
  <2>1. ASSUME ~dead' PROVE \A ty \in Types : UsersCounted(ty)
    BY <1>1, <2>1, VnodeAssumption, SMTT(20)
    DEF LookupMisses, Goto, daemon, vnode, locks, thread, UsersCounted,
        TypeInv, Typed, PCs, Placed, HandleInv, Making, Nonexistent,
        InTheMaking, Openers, Mappers, Referenced, Types, Valid, Closed
  <2>2. dead => dead'
    BY <1>1
    DEF LookupMisses, Goto, daemon, vnode, locks, thread
  <2> QED BY <2>1, <2>2, CoverKept, TypedStep DEF TypeInv, HandleInv
<1>2. CASE t \in Threads /\ LookupCached(t)
  <2>1. ASSUME ~dead' PROVE \A ty \in Types : UsersCounted(ty)
    BY <1>2, <2>1, VnodeAssumption, SMTT(20)
    DEF LookupCached, Goto, daemon, vnode, locks, thread, UsersCounted,
        TypeInv, Typed, PCs, Placed, HandleInv, Making, Nonexistent,
        InTheMaking, Openers, Mappers, Referenced, Types, Valid, Closed
  <2>2. dead => dead'
    BY <1>2
    DEF LookupCached, Goto, daemon, vnode, locks, thread
  <2> QED BY <2>1, <2>2, CoverKept, TypedStep DEF TypeInv, HandleInv
<1>3. CASE t \in Threads /\ Lookup(t)
  <2>1. ASSUME ~dead' PROVE \A ty \in Types : UsersCounted(ty)
    BY <1>3, <2>1, VnodeAssumption, SMTT(20)
    DEF Lookup, Goto, Created, daemon, vnode, locks, thread, UsersCounted,
        TypeInv, Typed, PCs, Placed, HandleInv, Making, Nonexistent,
        InTheMaking, Openers, Mappers, Referenced, Types, Valid, Closed
  <2>2. dead => dead'
    BY <1>3
    DEF Lookup, Goto, Created, daemon, vnode, locks, thread
  <2> QED BY <2>1, <2>2, CoverKept, TypedStep DEF TypeInv, HandleInv
<1>4. CASE t \in Threads /\ LookupFails(t)
  <2>1. ASSUME ~dead' PROVE \A ty \in Types : UsersCounted(ty)
    BY <1>4, <2>1, VnodeAssumption, SMTT(20)
    DEF LookupFails, GivenBack, daemon, vnode, locks, thread, UsersCounted,
        TypeInv, Typed, PCs, Placed, HandleInv, Making, Nonexistent,
        InTheMaking, Openers, Mappers, Referenced, Types, Valid, Closed
  <2>2. dead => dead'
    BY <1>4
    DEF LookupFails, GivenBack, daemon, vnode, locks, thread
  <2> QED BY <2>1, <2>2, CoverKept, TypedStep DEF TypeInv, HandleInv
<1>5. CASE t \in Threads /\ LookupCut(t)
  <2>1. ASSUME ~dead' PROVE \A ty \in Types : UsersCounted(ty)
    BY <1>5, <2>1, VnodeAssumption, SMTT(20)
    DEF LookupCut, daemon, vnode, locks, thread, UsersCounted, TypeInv,
        Typed, PCs, Placed, HandleInv, Making, Nonexistent, InTheMaking,
        Openers, Mappers, Referenced, Types, Valid, Closed
  <2>2. dead => dead'
    BY <1>5
    DEF LookupCut, daemon, vnode, locks, thread
  <2> QED BY <2>1, <2>2, CoverKept, TypedStep DEF TypeInv, HandleInv
<1>6. CASE t \in Threads /\ Create(t)
  <2>1. ASSUME ~dead' PROVE \A ty \in Types : UsersCounted(ty)
    BY <1>6, <2>1, VnodeAssumption, SMTT(20)
    DEF Create, Goto, Creating, Get, Opened, Created, daemon, vnode, locks,
        thread, UsersCounted, TypeInv, Typed, PCs, Placed, HandleInv, Making,
        Nonexistent, InTheMaking, Openers, Mappers, Referenced, Types, Valid,
        Closed
  <2>2. dead => dead'
    BY <1>6
    DEF Create, Goto, Creating, Get, Opened, Created, daemon, vnode, locks,
        thread
  <2> QED BY <2>1, <2>2, CoverKept, TypedStep DEF TypeInv, HandleInv
<1>7. CASE t \in Threads /\ CreateMknod(t)
  <2>1. ASSUME ~dead' PROVE \A ty \in Types : UsersCounted(ty)
    BY <1>7, <2>1, VnodeAssumption, SMTT(20)
    DEF CreateMknod, Goto, Creating, Created, daemon, vnode, locks, thread,
        UsersCounted, TypeInv, Typed, PCs, Placed, HandleInv, Making,
        Nonexistent, InTheMaking, Openers, Mappers, Referenced, Types, Valid,
        Closed
  <2>2. dead => dead'
    BY <1>7
    DEF CreateMknod, Goto, Creating, Created, daemon, vnode, locks, thread
  <2> QED BY <2>1, <2>2, CoverKept, TypedStep DEF TypeInv, HandleInv
<1>8. CASE t \in Threads /\ CreateFails(t)
  <2>1. ASSUME ~dead' PROVE \A ty \in Types : UsersCounted(ty)
    BY <1>8, <2>1, VnodeAssumption, SMTT(20)
    DEF CreateFails, Goto, Creating, daemon, vnode, locks, thread,
        UsersCounted, TypeInv, Typed, PCs, Placed, HandleInv, Making,
        Nonexistent, InTheMaking, Openers, Mappers, Referenced, Types, Valid,
        Closed
  <2>2. dead => dead'
    BY <1>8
    DEF CreateFails, Goto, Creating, daemon, vnode, locks, thread
  <2> QED BY <2>1, <2>2, CoverKept, TypedStep DEF TypeInv, HandleInv
<1>9. CASE t \in Threads /\ CreateCut(t)
  <2>1. ASSUME ~dead' PROVE \A ty \in Types : UsersCounted(ty)
    BY <1>9, <2>1, VnodeAssumption, SMTT(20)
    DEF CreateCut, Goto, Creating, GetCut, Opened, daemon, vnode, locks,
        thread, UsersCounted, TypeInv, Typed, PCs, Placed, HandleInv, Making,
        Nonexistent, InTheMaking, Openers, Mappers, Referenced, Types, Valid,
        Closed
  <2>2. dead => dead'
    BY <1>9
    DEF CreateCut, Goto, Creating, GetCut, Opened, daemon, vnode, locks,
        thread
  <2> QED BY <2>1, <2>2, CoverKept, TypedStep DEF TypeInv, HandleInv
<1>10. CASE t \in Threads /\ CreateDead(t)
  <2>1. ASSUME ~dead' PROVE \A ty \in Types : UsersCounted(ty)
    BY <1>10, <2>1, VnodeAssumption, SMTT(20)
    DEF CreateDead, Goto, daemon, vnode, locks, thread, UsersCounted,
        TypeInv, Typed, PCs, Placed, HandleInv, Making, Nonexistent,
        InTheMaking, Openers, Mappers, Referenced, Types, Valid, Closed
  <2>2. dead => dead'
    BY <1>10
    DEF CreateDead, Goto, daemon, vnode, locks, thread
  <2> QED BY <2>1, <2>2, CoverKept, TypedStep DEF TypeInv, HandleInv
<1>11. CASE t \in Threads /\ CreateTooLate(t)
  <2>1. ASSUME ~dead' PROVE \A ty \in Types : UsersCounted(ty)
    BY <1>11, <2>1, VnodeAssumption, SMTT(20)
    DEF CreateTooLate, Goto, daemon, vnode, locks, thread, UsersCounted,
        TypeInv, Typed, PCs, Placed, HandleInv, Making, Nonexistent,
        InTheMaking, Openers, Mappers, Referenced, Types, Valid, Closed
  <2>2. dead => dead'
    BY <1>11
    DEF CreateTooLate, Goto, daemon, vnode, locks, thread
  <2> QED BY <2>1, <2>2, CoverKept, TypedStep DEF TypeInv, HandleInv
<1>12. CASE t \in Threads /\ OpenDead(t)
  <2>1. ASSUME ~dead' PROVE \A ty \in Types : UsersCounted(ty)
    BY <1>12, <2>1, VnodeAssumption, SMTT(20)
    DEF OpenDead, Locked, daemon, vnode, locks, thread, UsersCounted,
        TypeInv, Typed, PCs, Placed, HandleInv, Making, Nonexistent,
        InTheMaking, Openers, Mappers, Referenced, Types, Valid, Closed
  <2>2. dead => dead'
    BY <1>12
    DEF OpenDead, Locked, daemon, vnode, locks, thread
  <2> QED BY <2>1, <2>2, CoverKept, TypedStep DEF TypeInv, HandleInv
<1>13. CASE t \in Threads /\ OpenStashed(t)
  <2>1. ASSUME ~dead' PROVE \A ty \in Types : UsersCounted(ty)
    BY <1>13, <2>1, VnodeAssumption, SMTT(20)
    DEF OpenStashed, Locked, daemon, vnode, locks, thread, UsersCounted,
        TypeInv, Typed, PCs, Placed, HandleInv, Making, Nonexistent,
        InTheMaking, Openers, Mappers, Referenced, Types, Valid, Closed
  <2>2. dead => dead'
    BY <1>13
    DEF OpenStashed, Locked, daemon, vnode, locks, thread
  <2> QED BY <2>1, <2>2, CoverKept, TypedStep DEF TypeInv, HandleInv
<1>14. CASE t \in Threads /\ OpenSleeps(t)
  <2>1. ASSUME ~dead' PROVE \A ty \in Types : UsersCounted(ty)
    BY <1>14, <2>1, VnodeAssumption, SMTT(20)
    DEF OpenSleeps, Locked, daemon, vnode, locks, thread, UsersCounted,
        TypeInv, Typed, PCs, Placed, HandleInv, Making, Nonexistent,
        InTheMaking, Openers, Mappers, Referenced, Types, Valid, Closed
  <2>2. dead => dead'
    BY <1>14
    DEF OpenSleeps, Locked, daemon, vnode, locks, thread
  <2> QED BY <2>1, <2>2, CoverKept, TypedStep DEF TypeInv, HandleInv
<1>15. CASE t \in Threads /\ OpenSignalled(t)
  <2>1. ASSUME ~dead' PROVE \A ty \in Types : UsersCounted(ty)
    BY <1>15, <2>1, VnodeAssumption, SMTT(20)
    DEF OpenSignalled, Goto, Leave, daemon, vnode, locks, thread,
        UsersCounted, TypeInv, Typed, PCs, Placed, HandleInv, Making,
        Nonexistent, InTheMaking, Openers, Mappers, Referenced, Types, Valid,
        Closed
  <2>2. dead => dead'
    BY <1>15
    DEF OpenSignalled, Goto, Leave, daemon, vnode, locks, thread
  <2> QED BY <2>1, <2>2, CoverKept, TypedStep DEF TypeInv, HandleInv
<1>16. CASE t \in Threads /\ OpenShared(t)
  <2>1. ASSUME ~dead' PROVE \A ty \in Types : UsersCounted(ty)
    BY <1>16, <2>1, VnodeAssumption, SMTT(20)
    DEF OpenShared, Opening, Locked, Leave, Use, Valid, daemon, vnode, locks,
        thread, UsersCounted, TypeInv, Typed, PCs, Placed, HandleInv, Making,
        Nonexistent, InTheMaking, Openers, Mappers, Referenced, Types, Closed
  <2>2. dead => dead'
    BY <1>16
    DEF OpenShared, Opening, Locked, Leave, Use, Valid, daemon, vnode, locks,
        thread
  <2> QED BY <2>1, <2>2, CoverKept, TypedStep DEF TypeInv, HandleInv
<1>17. CASE t \in Threads /\ OpenGets(t)
  <2>1. ASSUME ~dead' PROVE \A ty \in Types : UsersCounted(ty)
    BY <1>17, <2>1, VnodeAssumption, SMTT(20)
    DEF OpenGets, Opening, Locked, Leave, Get, Opened, Valid, daemon, vnode,
        locks, thread, UsersCounted, TypeInv, Typed, PCs, Placed, HandleInv,
        Making, Nonexistent, InTheMaking, Openers, Mappers, Referenced,
        Types, Closed
  <2>2. dead => dead'
    BY <1>17
    DEF OpenGets, Opening, Locked, Leave, Get, Opened, Valid, daemon, vnode,
        locks, thread
  <2> QED BY <2>1, <2>2, CoverKept, TypedStep DEF TypeInv, HandleInv
<1>18. CASE t \in Threads /\ OpenFails(t)
  <2>1. ASSUME ~dead' PROVE \A ty \in Types : UsersCounted(ty)
    BY <1>18, <2>1, VnodeAssumption, SMTT(20)
    DEF OpenFails, Opening, Locked, Leave, GetRefused, GetCut, Opened, Valid,
        daemon, vnode, locks, thread, UsersCounted, TypeInv, Typed, PCs,
        Placed, HandleInv, Making, Nonexistent, InTheMaking, Openers,
        Mappers, Referenced, Types, Closed
  <2>2. dead => dead'
    BY <1>18
    DEF OpenFails, Opening, Locked, Leave, GetRefused, GetCut, Opened, Valid,
        daemon, vnode, locks, thread
  <2> QED BY <2>1, <2>2, CoverKept, TypedStep DEF TypeInv, HandleInv
<1>19. CASE t \in Threads /\ Close(t)
  <2>1. ASSUME ~dead' PROVE \A ty \in Types : UsersCounted(ty)
    BY <1>19, <2>1, VnodeAssumption, SMTT(20)
    DEF Close, Goto, Locked, Put, LastUse, Valid, daemon, vnode, locks,
        thread, UsersCounted, TypeInv, Typed, PCs, Placed, HandleInv, Making,
        Nonexistent, InTheMaking, Openers, Mappers, Referenced, Types, Closed
  <2>2. dead => dead'
    BY <1>19
    DEF Close, Goto, Locked, Put, LastUse, Valid, daemon, vnode, locks,
        thread
  <2> QED BY <2>1, <2>2, CoverKept, TypedStep DEF TypeInv, HandleInv
<1>20. CASE t \in Threads /\ MmapShared(t)
  <2>1. PICK ty \in MapTypes :
          /\ fufh' = [fufh EXCEPT ![ty].count = @ + 1]
          /\ map' = [map EXCEPT ![t] = ty]
    BY <1>20 DEF MmapShared, Use, Map
  <2>2. /\ pc' = pc /\ file' = file /\ dead' = dead
        /\ map[t] = NoOne /\ ty \in Types
    BY <1>20, VnodeAssumption DEF MmapShared, daemon
  <2>3. \A o \in Types : Openers(o)' = Openers(o)
    BY <2>2 DEF Openers
  <2>4. \A o \in Types \ {ty} : Mappers(o)' \subseteq Mappers(o)
    BY <2>1, <2>2 DEF Mappers, TypeInv, Typed
  <2>5. Mappers(ty)' \subseteq Mappers(ty) \cup {t}
    BY <2>1, <2>2 DEF Mappers, TypeInv, Typed
  <2>6. /\ fufh'[ty].count = fufh[ty].count + 1
        /\ \A o \in Types \ {ty} : fufh'[o].count = fufh[o].count
    BY <2>1, <2>2 DEF TypeInv, Typed
  <2>7. \A o \in Types : UsersCounted(o)
    <3>1. UsersCounted(ty)
      BY <2>2, <2>3, <2>5, <2>6 DEF UsersCounted
    <3>2. \A o \in Types \ {ty} : UsersCounted(o)
      BY <2>3, <2>4, <2>6 DEF UsersCounted, TypeInv, Typed
    <3> QED BY <3>1, <3>2
  <2> QED BY <2>2, <2>7, CoverKept, TypedStep DEF TypeInv, HandleInv
<1>21. CASE t \in Threads /\ MmapPreflight(t)
  <2>1. ASSUME ~dead' PROVE \A ty \in Types : UsersCounted(ty)
    BY <1>21, <2>1, VnodeAssumption, SMTT(20)
    DEF MmapPreflight, Goto, Locked, Map, Valid, daemon, vnode, locks,
        thread, UsersCounted, TypeInv, Typed, PCs, Placed, HandleInv, Making,
        Nonexistent, InTheMaking, Openers, Mappers, Referenced, Types, Closed
  <2>2. dead => dead'
    BY <1>21
    DEF MmapPreflight, Goto, Locked, Map, Valid, daemon, vnode, locks, thread
  <2> QED BY <2>1, <2>2, CoverKept, TypedStep DEF TypeInv, HandleInv
<1>22. CASE t \in Threads /\ MmapDead(t)
  <2>1. ASSUME ~dead' PROVE \A ty \in Types : UsersCounted(ty)
    BY <1>22, <2>1, VnodeAssumption, SMTT(20)
    DEF MmapDead, Goto, Locked, daemon, vnode, locks, thread, UsersCounted,
        TypeInv, Typed, PCs, Placed, HandleInv, Making, Nonexistent,
        InTheMaking, Openers, Mappers, Referenced, Types, Valid, Closed
  <2>2. dead => dead'
    BY <1>22
    DEF MmapDead, Goto, Locked, daemon, vnode, locks, thread
  <2> QED BY <2>1, <2>2, CoverKept, TypedStep DEF TypeInv, HandleInv
<1>23. CASE t \in Threads /\ MmapPanics(t)
  <2>1. ASSUME ~dead' PROVE \A ty \in Types : UsersCounted(ty)
    BY <1>23, <2>1, VnodeAssumption, SMTT(20)
    DEF MmapPanics, Goto, Valid, daemon, vnode, locks, thread, UsersCounted,
        TypeInv, Typed, PCs, Placed, HandleInv, Making, Nonexistent,
        InTheMaking, Openers, Mappers, Referenced, Types, Closed
  <2>2. dead => dead'
    BY <1>23
    DEF MmapPanics, Goto, Valid, daemon, vnode, locks, thread
  <2> QED BY <2>1, <2>2, CoverKept, TypedStep DEF TypeInv, HandleInv
<1>24. CASE t \in Threads /\ MmapGets(t)
  <2>1. ASSUME ~dead' PROVE \A ty \in Types : UsersCounted(ty)
    BY <1>24, <2>1, VnodeAssumption, SMTT(20)
    DEF MmapGets, Goto, Get, Opened, Leave, Valid, daemon, vnode, locks,
        thread, UsersCounted, TypeInv, Typed, PCs, Placed, HandleInv, Making,
        Nonexistent, InTheMaking, Openers, Mappers, Referenced, Types, Closed
  <2>2. dead => dead'
    BY <1>24
    DEF MmapGets, Goto, Get, Opened, Leave, Valid, daemon, vnode, locks,
        thread
  <2> QED BY <2>1, <2>2, CoverKept, TypedStep DEF TypeInv, HandleInv
<1>25. CASE t \in Threads /\ MmapRetries(t)
  <2>1. /\ map' = [map EXCEPT ![t] = "RDONLY"] /\ file' = file /\ dead' = dead
        /\ pc[t] = "preflight" /\ "RDONLY" \in Types
    BY <1>25 DEF MmapRetries, Map, daemon, Types
  <2>2. \A o \in Types : Openers(o)' = Openers(o)
    BY <2>1 DEF Openers
  <2>3. CASE fufh' = fufh /\ pc' = pc
    <3>1. \A o \in Types : Mappers(o)' \subseteq Mappers(o)
      BY <2>1, <2>3 DEF Mappers, TypeInv, Typed
    <3>2. \A o \in Types : UsersCounted(o)
      BY <2>2, <2>3, <3>1 DEF UsersCounted, TypeInv, Typed
    <3> QED BY <2>1, <3>2, CoverKept, TypedStep DEF TypeInv, HandleInv
  <2>4. CASE /\ fufh' = [fufh EXCEPT !["RDONLY"].count = @ + 1]
             /\ pc' = [pc EXCEPT ![t] = "open"]
    <3>1. \A o \in Types \ {"RDONLY"} : Mappers(o)' \subseteq Mappers(o)
      BY <2>1, <2>4 DEF Mappers, TypeInv, Typed
    <3>2. Mappers("RDONLY")' \subseteq Mappers("RDONLY") \cup {t}
      BY <2>1, <2>4 DEF Mappers, TypeInv, Typed
    <3>3. /\ fufh'["RDONLY"].count = fufh["RDONLY"].count + 1
          /\ \A o \in Types \ {"RDONLY"} : fufh'[o].count = fufh[o].count
      BY <2>1, <2>4 DEF TypeInv, Typed
    <3>4. \A o \in Types : UsersCounted(o)
      <4>1. UsersCounted("RDONLY")
        BY <2>1, <2>2, <3>2, <3>3 DEF UsersCounted
      <4>2. \A o \in Types \ {"RDONLY"} : UsersCounted(o)
        BY <2>2, <3>1, <3>3 DEF UsersCounted, TypeInv, Typed
      <4> QED BY <4>1, <4>2
    <3> QED BY <2>1, <3>4, CoverKept, TypedStep DEF TypeInv, HandleInv
  <2> QED BY <1>25, <2>3, <2>4, Zenon DEF MmapRetries, Use
<1>26. CASE t \in Threads /\ MmapFails(t)
  <2>1. ASSUME ~dead' PROVE \A ty \in Types : UsersCounted(ty)
    BY <1>26, <2>1, VnodeAssumption, SMTT(20)
    DEF MmapFails, Goto, Map, Leave, GetRefused, GetCut, Opened, Valid,
        daemon, vnode, locks, thread, UsersCounted, TypeInv, Typed, PCs,
        Placed, HandleInv, Making, Nonexistent, InTheMaking, Openers,
        Mappers, Referenced, Types, Closed
  <2>2. dead => dead'
    BY <1>26
    DEF MmapFails, Goto, Map, Leave, GetRefused, GetCut, Opened, Valid,
        daemon, vnode, locks, thread
  <2> QED BY <2>1, <2>2, CoverKept, TypedStep DEF TypeInv, HandleInv
<1>27. CASE t \in Threads /\ Munmap(t)
  <2>1. ASSUME ~dead' PROVE \A ty \in Types : UsersCounted(ty)
    BY <1>27, <2>1, VnodeAssumption, SMTT(20)
    DEF Munmap, Map, daemon, vnode, locks, thread, UsersCounted, TypeInv,
        Typed, PCs, Placed, HandleInv, Making, Nonexistent, InTheMaking,
        Openers, Mappers, Referenced, Types, Valid, Closed
  <2>2. dead => dead'
    BY <1>27
    DEF Munmap, Map, daemon, vnode, locks, thread
  <2> QED BY <2>1, <2>2, CoverKept, TypedStep DEF TypeInv, HandleInv
<1>28. CASE Page
  <2>1. ASSUME ~dead' PROVE \A ty \in Types : UsersCounted(ty)
    BY <1>28, <2>1, VnodeAssumption, SMTT(20)
    DEF Page, Get, GetCut, Opened, Valid, daemon, vnode, locks, thread,
        UsersCounted, TypeInv, Typed, PCs, Placed, HandleInv, Making,
        Nonexistent, InTheMaking, Openers, Mappers, Referenced, Types, Closed
  <2>2. dead => dead'
    BY <1>28
    DEF Page, Get, GetCut, Opened, Valid, daemon, vnode, locks, thread
  <2> QED BY <2>1, <2>2, CoverKept, TypedStep DEF TypeInv, HandleInv
<1>29. CASE Inactive
  <2>1. ASSUME ~dead' PROVE \A ty \in Types : UsersCounted(ty)
    BY <1>29, <2>1, VnodeAssumption, SMTT(20)
    DEF Inactive, Referenced, Put, Reset, LeftOpen, daemon, vnode, locks,
        thread, UsersCounted, TypeInv, Typed, PCs, Placed, HandleInv, Making,
        Nonexistent, InTheMaking, Openers, Mappers, Types, Valid, Closed
  <2>2. dead => dead'
    BY <1>29
    DEF Inactive, Referenced, Put, Reset, LeftOpen, daemon, vnode, locks,
        thread
  <2> QED BY <2>1, <2>2, CoverKept, TypedStep DEF TypeInv, HandleInv
<1>30. CASE Reclaim
  <2>1. ASSUME ~dead' PROVE \A ty \in Types : UsersCounted(ty)
    BY <1>30, <2>1, VnodeAssumption, SMTT(20)
    DEF Reclaim, Referenced, Put, Reset, LeftOpen, ToForget, daemon, vnode,
        locks, thread, UsersCounted, TypeInv, Typed, PCs, Placed, HandleInv,
        Making, Nonexistent, InTheMaking, Openers, Mappers, Types, Valid,
        Closed
  <2>2. dead => dead'
    BY <1>30
    DEF Reclaim, Referenced, Put, Reset, LeftOpen, ToForget, daemon, vnode,
        locks, thread
  <2> QED BY <2>1, <2>2, CoverKept, TypedStep DEF TypeInv, HandleInv
<1>31. CASE Forget
  <2>1. ASSUME ~dead' PROVE \A ty \in Types : UsersCounted(ty)
    BY <1>31, <2>1, VnodeAssumption, SMTT(20)
    DEF Forget, daemon, vnode, locks, thread, UsersCounted, TypeInv, Typed,
        PCs, Placed, HandleInv, Making, Nonexistent, InTheMaking, Openers,
        Mappers, Referenced, Types, Valid, Closed
  <2>2. dead => dead'
    BY <1>31
    DEF Forget, daemon, vnode, locks, thread
  <2> QED BY <2>1, <2>2, CoverKept, TypedStep DEF TypeInv, HandleInv
<1>32. CASE Die
  <2>1. ASSUME ~dead' PROVE \A ty \in Types : UsersCounted(ty)
    BY <1>32, <2>1, VnodeAssumption, SMTT(20)
    DEF Die, daemon, vnode, locks, thread, UsersCounted, TypeInv, Typed, PCs,
        Placed, HandleInv, Making, Nonexistent, InTheMaking, Openers,
        Mappers, Referenced, Types, Valid, Closed
  <2>2. dead => dead'
    BY <1>32
    DEF Die, daemon, vnode, locks, thread
  <2> QED BY <2>1, <2>2, CoverKept, TypedStep DEF TypeInv, HandleInv
<1> QED
  BY <1>1, <1>2, <1>3, <1>4, <1>5, <1>6, <1>7, <1>8, <1>9, <1>10, <1>11,
     <1>12, <1>13, <1>14, <1>15, <1>16, <1>17, <1>18, <1>19, <1>20, <1>21,
     <1>22, <1>23, <1>24, <1>25, <1>26, <1>27, <1>28, <1>29, <1>30, <1>31,
     <1>32
  DEF Step, ThreadStep

(* Lost handles stay open at the daemon.                                   *)
LEMMA LostStep ==
  ASSUME TypeInv, HandleInv, NEW t, Step(t), OneCreator
  PROVE  (lost \subseteq opened)'
<1>1. CASE t \in Threads /\ LookupMisses(t)
  BY <1>1, VnodeAssumption, FreshIsNew, SMTT(10)
  DEF LookupMisses, Goto, daemon, vnode, locks, thread, TypeInv, Typed,
      HandleInv, OneReleasePerOpen, ValidHandles, Valid, LeftOpen, Types,
      Making, Nonexistent
<1>2. CASE t \in Threads /\ LookupCached(t)
  BY <1>2, VnodeAssumption, FreshIsNew, SMTT(10)
  DEF LookupCached, Goto, daemon, vnode, locks, thread, TypeInv, Typed,
      HandleInv, OneReleasePerOpen, ValidHandles, Valid, LeftOpen, Types,
      Making, Nonexistent
<1>3. CASE t \in Threads /\ Lookup(t)
  BY <1>3, VnodeAssumption, FreshIsNew, SMTT(10)
  DEF Lookup, Goto, Created, daemon, vnode, locks, thread, TypeInv, Typed,
      HandleInv, OneReleasePerOpen, ValidHandles, Valid, LeftOpen, Types,
      Making, Nonexistent
<1>4. CASE t \in Threads /\ LookupFails(t)
  BY <1>4, VnodeAssumption, FreshIsNew, SMTT(10)
  DEF LookupFails, GivenBack, daemon, vnode, locks, thread, TypeInv, Typed,
      HandleInv, OneReleasePerOpen, ValidHandles, Valid, LeftOpen, Types,
      Making, Nonexistent
<1>5. CASE t \in Threads /\ LookupCut(t)
  BY <1>5, VnodeAssumption, FreshIsNew, SMTT(10)
  DEF LookupCut, daemon, vnode, locks, thread, TypeInv, Typed, HandleInv,
      OneReleasePerOpen, ValidHandles, Valid, LeftOpen, Types, Making,
      Nonexistent
<1>6. CASE t \in Threads /\ Create(t)
  BY <1>6, VnodeAssumption, FreshIsNew, SMTT(10)
  DEF Create, Goto, Creating, Get, Opened, Created, daemon, vnode, locks,
      thread, TypeInv, Typed, HandleInv, OneReleasePerOpen, ValidHandles,
      Valid, LeftOpen, Types, Making, Nonexistent
<1>7. CASE t \in Threads /\ CreateMknod(t)
  BY <1>7, VnodeAssumption, FreshIsNew, SMTT(10)
  DEF CreateMknod, Goto, Creating, Created, daemon, vnode, locks, thread,
      TypeInv, Typed, HandleInv, OneReleasePerOpen, ValidHandles, Valid,
      LeftOpen, Types, Making, Nonexistent
<1>8. CASE t \in Threads /\ CreateFails(t)
  BY <1>8, VnodeAssumption, FreshIsNew, SMTT(10)
  DEF CreateFails, Goto, Creating, daemon, vnode, locks, thread, TypeInv,
      Typed, HandleInv, OneReleasePerOpen, ValidHandles, Valid, LeftOpen,
      Types, Making, Nonexistent
<1>9. CASE t \in Threads /\ CreateCut(t)
  BY <1>9, VnodeAssumption, FreshIsNew, SMTT(10)
  DEF CreateCut, Goto, Creating, GetCut, Opened, daemon, vnode, locks,
      thread, TypeInv, Typed, HandleInv, OneReleasePerOpen, ValidHandles,
      Valid, LeftOpen, Types, Making, Nonexistent
<1>10. CASE t \in Threads /\ CreateDead(t)
  BY <1>10, VnodeAssumption, FreshIsNew, SMTT(10)
  DEF CreateDead, Goto, daemon, vnode, locks, thread, TypeInv, Typed,
      HandleInv, OneReleasePerOpen, ValidHandles, Valid, LeftOpen, Types,
      Making, Nonexistent
<1>11. CASE t \in Threads /\ CreateTooLate(t)
  BY <1>11, VnodeAssumption, FreshIsNew, SMTT(10)
  DEF CreateTooLate, Goto, daemon, vnode, locks, thread, TypeInv, Typed,
      HandleInv, OneReleasePerOpen, ValidHandles, Valid, LeftOpen, Types,
      Making, Nonexistent
<1>12. CASE t \in Threads /\ OpenDead(t)
  BY <1>12, VnodeAssumption, FreshIsNew, SMTT(10)
  DEF OpenDead, Locked, daemon, vnode, locks, thread, TypeInv, Typed,
      HandleInv, OneReleasePerOpen, ValidHandles, Valid, LeftOpen, Types,
      Making, Nonexistent
<1>13. CASE t \in Threads /\ OpenStashed(t)
  BY <1>13, VnodeAssumption, FreshIsNew, SMTT(10)
  DEF OpenStashed, Locked, daemon, vnode, locks, thread, TypeInv, Typed,
      HandleInv, OneReleasePerOpen, ValidHandles, Valid, LeftOpen, Types,
      Making, Nonexistent
<1>14. CASE t \in Threads /\ OpenSleeps(t)
  BY <1>14, VnodeAssumption, FreshIsNew, SMTT(10)
  DEF OpenSleeps, Locked, daemon, vnode, locks, thread, TypeInv, Typed,
      HandleInv, OneReleasePerOpen, ValidHandles, Valid, LeftOpen, Types,
      Making, Nonexistent
<1>15. CASE t \in Threads /\ OpenSignalled(t)
  BY <1>15, VnodeAssumption, FreshIsNew, SMTT(10)
  DEF OpenSignalled, Goto, Leave, daemon, vnode, locks, thread, TypeInv,
      Typed, HandleInv, OneReleasePerOpen, ValidHandles, Valid, LeftOpen,
      Types, Making, Nonexistent
<1>16. CASE t \in Threads /\ OpenShared(t)
  BY <1>16, VnodeAssumption, FreshIsNew, SMTT(10)
  DEF OpenShared, Opening, Locked, Leave, Use, Valid, daemon, vnode, locks,
      thread, TypeInv, Typed, HandleInv, OneReleasePerOpen, ValidHandles,
      LeftOpen, Types, Making, Nonexistent
<1>17. CASE t \in Threads /\ OpenGets(t)
  BY <1>17, VnodeAssumption, FreshIsNew, SMTT(10)
  DEF OpenGets, Opening, Locked, Leave, Get, Opened, Valid, daemon, vnode,
      locks, thread, TypeInv, Typed, HandleInv, OneReleasePerOpen,
      ValidHandles, LeftOpen, Types, Making, Nonexistent
<1>18. CASE t \in Threads /\ OpenFails(t)
  BY <1>18, VnodeAssumption, FreshIsNew, SMTT(10)
  DEF OpenFails, Opening, Locked, Leave, GetRefused, GetCut, Opened, Valid,
      daemon, vnode, locks, thread, TypeInv, Typed, HandleInv,
      OneReleasePerOpen, ValidHandles, LeftOpen, Types, Making, Nonexistent
<1>19. CASE t \in Threads /\ Close(t)
  <2>1. PICK ty : ty = file[t]
    OBVIOUS
  <2>2. /\ lost' = lost /\ ty \in Types
        /\ \/ opened' = opened
           \/ ~dead /\ Valid(ty) /\ opened' = opened \ {fufh[ty].fh}
    <3>1. CASE dead \/ ~Valid(ty)
      BY <1>19, <2>1, <3>1, VnodeAssumption
      DEF Close, Goto, TypeInv, Typed, Placed
    <3>2. CASE ~dead /\ Valid(ty)
      <4>1. opened' = opened \/ Put(IF LastUse(ty) THEN {fufh[ty].fh} ELSE {})
        BY <1>19, <2>1, <3>2 DEF Close
      <4>2. opened' = opened \/ opened' = opened \ {fufh[ty].fh}
        BY <4>1, <3>2 DEF Put
      <4> QED BY <1>19, <2>1, <3>2, <4>2, VnodeAssumption
          DEF Close, Goto, TypeInv, Typed, Placed
    <3> QED BY <3>1, <3>2
  <2>3. ~dead /\ Valid(ty) => fufh[ty].fh \notin lost
    BY <2>2 DEF HandleInv, OneReleasePerOpen, ValidHandles
  <2> QED BY <2>2, <2>3 DEF HandleInv
<1>20. CASE t \in Threads /\ MmapShared(t)
  BY <1>20, VnodeAssumption, FreshIsNew, SMTT(10)
  DEF MmapShared, Locked, MayMap, Use, Map, Valid, daemon, vnode, locks,
      thread, TypeInv, Typed, HandleInv, OneReleasePerOpen, ValidHandles,
      LeftOpen, Types, Making, Nonexistent
<1>21. CASE t \in Threads /\ MmapPreflight(t)
  BY <1>21, VnodeAssumption, FreshIsNew, SMTT(10)
  DEF MmapPreflight, Goto, Locked, Map, Valid, daemon, vnode, locks, thread,
      TypeInv, Typed, HandleInv, OneReleasePerOpen, ValidHandles, LeftOpen,
      Types, Making, Nonexistent
<1>22. CASE t \in Threads /\ MmapDead(t)
  BY <1>22, VnodeAssumption, FreshIsNew, SMTT(10)
  DEF MmapDead, Goto, Locked, daemon, vnode, locks, thread, TypeInv, Typed,
      HandleInv, OneReleasePerOpen, ValidHandles, Valid, LeftOpen, Types,
      Making, Nonexistent
<1>23. CASE t \in Threads /\ MmapPanics(t)
  BY <1>23, VnodeAssumption, FreshIsNew, SMTT(10)
  DEF MmapPanics, Goto, Valid, daemon, vnode, locks, thread, TypeInv, Typed,
      HandleInv, OneReleasePerOpen, ValidHandles, LeftOpen, Types, Making,
      Nonexistent
<1>24. CASE t \in Threads /\ MmapGets(t)
  BY <1>24, VnodeAssumption, FreshIsNew, SMTT(10)
  DEF MmapGets, Goto, Get, Opened, Leave, Valid, daemon, vnode, locks,
      thread, TypeInv, Typed, HandleInv, OneReleasePerOpen, ValidHandles,
      LeftOpen, Types, Making, Nonexistent
<1>25. CASE t \in Threads /\ MmapRetries(t)
  BY <1>25, VnodeAssumption, FreshIsNew, SMTT(10)
  DEF MmapRetries, Goto, Map, MayMap, Use, Leave, Valid, daemon, vnode,
      locks, thread, TypeInv, Typed, HandleInv, OneReleasePerOpen,
      ValidHandles, LeftOpen, Types, Making, Nonexistent
<1>26. CASE t \in Threads /\ MmapFails(t)
  BY <1>26, VnodeAssumption, FreshIsNew, SMTT(10)
  DEF MmapFails, Goto, Map, Leave, GetRefused, GetCut, Opened, Valid, daemon,
      vnode, locks, thread, TypeInv, Typed, HandleInv, OneReleasePerOpen,
      ValidHandles, LeftOpen, Types, Making, Nonexistent
<1>27. CASE t \in Threads /\ Munmap(t)
  BY <1>27, VnodeAssumption, FreshIsNew, SMTT(10)
  DEF Munmap, Map, daemon, vnode, locks, thread, TypeInv, Typed, HandleInv,
      OneReleasePerOpen, ValidHandles, Valid, LeftOpen, Types, Making,
      Nonexistent
<1>28. CASE Page
  BY <1>28, VnodeAssumption, FreshIsNew, SMTT(10)
  DEF Page, Get, GetCut, Opened, Valid, daemon, vnode, locks, thread,
      TypeInv, Typed, HandleInv, OneReleasePerOpen, ValidHandles, LeftOpen,
      Types, Making, Nonexistent
<1>29. CASE Inactive
  BY <1>29, VnodeAssumption, FreshIsNew, SMTT(10)
  DEF Inactive, Referenced, Put, Reset, LeftOpen, daemon, vnode, locks,
      thread, TypeInv, Typed, HandleInv, OneReleasePerOpen, ValidHandles,
      Valid, Types, Making, Nonexistent
<1>30. CASE Reclaim
  BY <1>30, VnodeAssumption, FreshIsNew, SMTT(10)
  DEF Reclaim, Referenced, Put, Reset, LeftOpen, ToForget, daemon, vnode,
      locks, thread, TypeInv, Typed, HandleInv, OneReleasePerOpen,
      ValidHandles, Valid, Types, Making, Nonexistent
<1>31. CASE Forget
  BY <1>31, VnodeAssumption, FreshIsNew, SMTT(10)
  DEF Forget, daemon, vnode, locks, thread, TypeInv, Typed, HandleInv,
      OneReleasePerOpen, ValidHandles, Valid, LeftOpen, Types, Making,
      Nonexistent
<1>32. CASE Die
  BY <1>32, VnodeAssumption, FreshIsNew, SMTT(10)
  DEF Die, daemon, vnode, locks, thread, TypeInv, Typed, HandleInv,
      OneReleasePerOpen, ValidHandles, Valid, LeftOpen, Types, Making,
      Nonexistent
<1> QED
  BY <1>1, <1>2, <1>3, <1>4, <1>5, <1>6, <1>7, <1>8, <1>9, <1>10, <1>11,
     <1>12, <1>13, <1>14, <1>15, <1>16, <1>17, <1>18, <1>19, <1>20, <1>21,
     <1>22, <1>23, <1>24, <1>25, <1>26, <1>27, <1>28, <1>29, <1>30, <1>31,
     <1>32
  DEF Step, ThreadStep

(* OPEN and CREATE fill a slot, RELEASE empties it, and nothing else does  *)
(* either.                                                                 *)
LEMMA ReleaseStep ==
  ASSUME TypeInv, HandleInv, NEW t, Step(t), OneCreator
  PROVE  OneReleasePerOpen'
<1>1. CASE t \in Threads /\ LookupMisses(t)
  BY <1>1, VnodeAssumption, FreshIsNew, SMTT(10)
  DEF LookupMisses, Goto, daemon, vnode, locks, thread, TypeInv, Typed, PCs,
      Placed, HandleInv, Making, Nonexistent, InTheMaking, OneReleasePerOpen,
      ValidHandles, Valid, LeftOpen, Types
<1>2. CASE t \in Threads /\ LookupCached(t)
  BY <1>2, VnodeAssumption, FreshIsNew, SMTT(10)
  DEF LookupCached, Goto, daemon, vnode, locks, thread, TypeInv, Typed, PCs,
      Placed, HandleInv, Making, Nonexistent, InTheMaking, OneReleasePerOpen,
      ValidHandles, Valid, LeftOpen, Types
<1>3. CASE t \in Threads /\ Lookup(t)
  BY <1>3, VnodeAssumption, FreshIsNew, SMTT(10)
  DEF Lookup, Goto, Created, daemon, vnode, locks, thread, TypeInv, Typed,
      PCs, Placed, HandleInv, Making, Nonexistent, InTheMaking,
      OneReleasePerOpen, ValidHandles, Valid, LeftOpen, Types
<1>4. CASE t \in Threads /\ LookupFails(t)
  BY <1>4, VnodeAssumption, FreshIsNew, SMTT(10)
  DEF LookupFails, GivenBack, daemon, vnode, locks, thread, TypeInv, Typed,
      PCs, Placed, HandleInv, Making, Nonexistent, InTheMaking,
      OneReleasePerOpen, ValidHandles, Valid, LeftOpen, Types
<1>5. CASE t \in Threads /\ LookupCut(t)
  BY <1>5, VnodeAssumption, FreshIsNew, SMTT(10)
  DEF LookupCut, daemon, vnode, locks, thread, TypeInv, Typed, PCs, Placed,
      HandleInv, Making, Nonexistent, InTheMaking, OneReleasePerOpen,
      ValidHandles, Valid, LeftOpen, Types
<1>6. CASE t \in Threads /\ Create(t)
  BY <1>6, VnodeAssumption, FreshIsNew, SMTT(10)
  DEF Create, Goto, Creating, Get, Opened, Created, daemon, vnode, locks,
      thread, TypeInv, Typed, PCs, Placed, HandleInv, Making, Nonexistent,
      InTheMaking, OneReleasePerOpen, ValidHandles, Valid, LeftOpen, Types
<1>7. CASE t \in Threads /\ CreateMknod(t)
  BY <1>7, VnodeAssumption, FreshIsNew, SMTT(10)
  DEF CreateMknod, Goto, Creating, Created, daemon, vnode, locks, thread,
      TypeInv, Typed, PCs, Placed, HandleInv, Making, Nonexistent,
      InTheMaking, OneReleasePerOpen, ValidHandles, Valid, LeftOpen, Types
<1>8. CASE t \in Threads /\ CreateFails(t)
  BY <1>8, VnodeAssumption, FreshIsNew, SMTT(10)
  DEF CreateFails, Goto, Creating, daemon, vnode, locks, thread, TypeInv,
      Typed, PCs, Placed, HandleInv, Making, Nonexistent, InTheMaking,
      OneReleasePerOpen, ValidHandles, Valid, LeftOpen, Types
<1>9. CASE t \in Threads /\ CreateCut(t)
  BY <1>9, VnodeAssumption, FreshIsNew, SMTT(10)
  DEF CreateCut, Goto, Creating, GetCut, Opened, daemon, vnode, locks,
      thread, TypeInv, Typed, PCs, Placed, HandleInv, Making, Nonexistent,
      InTheMaking, OneReleasePerOpen, ValidHandles, Valid, LeftOpen, Types
<1>10. CASE t \in Threads /\ CreateDead(t)
  BY <1>10, VnodeAssumption, FreshIsNew, SMTT(10)
  DEF CreateDead, Goto, daemon, vnode, locks, thread, TypeInv, Typed, PCs,
      Placed, HandleInv, Making, Nonexistent, InTheMaking, OneReleasePerOpen,
      ValidHandles, Valid, LeftOpen, Types
<1>11. CASE t \in Threads /\ CreateTooLate(t)
  BY <1>11, VnodeAssumption, FreshIsNew, SMTT(10)
  DEF CreateTooLate, Goto, daemon, vnode, locks, thread, TypeInv, Typed, PCs,
      Placed, HandleInv, Making, Nonexistent, InTheMaking, OneReleasePerOpen,
      ValidHandles, Valid, LeftOpen, Types
<1>12. CASE t \in Threads /\ OpenDead(t)
  BY <1>12, VnodeAssumption, FreshIsNew, SMTT(10)
  DEF OpenDead, Locked, daemon, vnode, locks, thread, TypeInv, Typed, PCs,
      Placed, HandleInv, Making, Nonexistent, InTheMaking, OneReleasePerOpen,
      ValidHandles, Valid, LeftOpen, Types
<1>13. CASE t \in Threads /\ OpenStashed(t)
  BY <1>13, VnodeAssumption, FreshIsNew, SMTT(10)
  DEF OpenStashed, Locked, daemon, vnode, locks, thread, TypeInv, Typed, PCs,
      Placed, HandleInv, Making, Nonexistent, InTheMaking, OneReleasePerOpen,
      ValidHandles, Valid, LeftOpen, Types
<1>14. CASE t \in Threads /\ OpenSleeps(t)
  BY <1>14, VnodeAssumption, FreshIsNew, SMTT(10)
  DEF OpenSleeps, Locked, daemon, vnode, locks, thread, TypeInv, Typed, PCs,
      Placed, HandleInv, Making, Nonexistent, InTheMaking, OneReleasePerOpen,
      ValidHandles, Valid, LeftOpen, Types
<1>15. CASE t \in Threads /\ OpenSignalled(t)
  BY <1>15, VnodeAssumption, FreshIsNew, SMTT(10)
  DEF OpenSignalled, Goto, Leave, daemon, vnode, locks, thread, TypeInv,
      Typed, PCs, Placed, HandleInv, Making, Nonexistent, InTheMaking,
      OneReleasePerOpen, ValidHandles, Valid, LeftOpen, Types
<1>16. CASE t \in Threads /\ OpenShared(t)
  BY <1>16, VnodeAssumption, FreshIsNew, SMTT(10)
  DEF OpenShared, Opening, Locked, Leave, Use, Valid, daemon, vnode, locks,
      thread, TypeInv, Typed, PCs, Placed, HandleInv, Making, Nonexistent,
      InTheMaking, OneReleasePerOpen, ValidHandles, LeftOpen, Types
<1>17. CASE t \in Threads /\ OpenGets(t)
  BY <1>17, VnodeAssumption, FreshIsNew, SMTT(10)
  DEF OpenGets, Opening, Locked, Leave, Get, Opened, Valid, daemon, vnode,
      locks, thread, TypeInv, Typed, PCs, Placed, HandleInv, Making,
      Nonexistent, InTheMaking, OneReleasePerOpen, ValidHandles, LeftOpen,
      Types
<1>18. CASE t \in Threads /\ OpenFails(t)
  BY <1>18, VnodeAssumption, FreshIsNew, SMTT(10)
  DEF OpenFails, Opening, Locked, Leave, GetRefused, GetCut, Opened, Valid,
      daemon, vnode, locks, thread, TypeInv, Typed, PCs, Placed, HandleInv,
      Making, Nonexistent, InTheMaking, OneReleasePerOpen, ValidHandles,
      LeftOpen, Types
<1>19. CASE t \in Threads /\ Close(t)
  BY <1>19, VnodeAssumption, FreshIsNew, SMTT(10)
  DEF Close, Goto, Locked, Put, LastUse, Valid, daemon, vnode, locks, thread,
      TypeInv, Typed, PCs, Placed, HandleInv, Making, Nonexistent,
      InTheMaking, OneReleasePerOpen, ValidHandles, LeftOpen, Types
<1>20. CASE t \in Threads /\ MmapShared(t)
  BY <1>20, VnodeAssumption, FreshIsNew, SMTT(10)
  DEF MmapShared, Locked, MayMap, Use, Map, Valid, daemon, vnode, locks,
      thread, TypeInv, Typed, PCs, Placed, HandleInv, Making, Nonexistent,
      InTheMaking, OneReleasePerOpen, ValidHandles, LeftOpen, Types
<1>21. CASE t \in Threads /\ MmapPreflight(t)
  BY <1>21, VnodeAssumption, FreshIsNew, SMTT(10)
  DEF MmapPreflight, Goto, Locked, Map, Valid, daemon, vnode, locks, thread,
      TypeInv, Typed, PCs, Placed, HandleInv, Making, Nonexistent,
      InTheMaking, OneReleasePerOpen, ValidHandles, LeftOpen, Types
<1>22. CASE t \in Threads /\ MmapDead(t)
  BY <1>22, VnodeAssumption, FreshIsNew, SMTT(10)
  DEF MmapDead, Goto, Locked, daemon, vnode, locks, thread, TypeInv, Typed,
      PCs, Placed, HandleInv, Making, Nonexistent, InTheMaking,
      OneReleasePerOpen, ValidHandles, Valid, LeftOpen, Types
<1>23. CASE t \in Threads /\ MmapPanics(t)
  BY <1>23, VnodeAssumption, FreshIsNew, SMTT(10)
  DEF MmapPanics, Goto, Valid, daemon, vnode, locks, thread, TypeInv, Typed,
      PCs, Placed, HandleInv, Making, Nonexistent, InTheMaking,
      OneReleasePerOpen, ValidHandles, LeftOpen, Types
<1>24. CASE t \in Threads /\ MmapGets(t)
  BY <1>24, VnodeAssumption, FreshIsNew, SMTT(10)
  DEF MmapGets, Goto, Get, Opened, Leave, Valid, daemon, vnode, locks,
      thread, TypeInv, Typed, PCs, Placed, HandleInv, Making, Nonexistent,
      InTheMaking, OneReleasePerOpen, ValidHandles, LeftOpen, Types
<1>25. CASE t \in Threads /\ MmapRetries(t)
  BY <1>25, VnodeAssumption, FreshIsNew, SMTT(10)
  DEF MmapRetries, Goto, Map, MayMap, Use, Leave, Valid, daemon, vnode,
      locks, thread, TypeInv, Typed, PCs, Placed, HandleInv, Making,
      Nonexistent, InTheMaking, OneReleasePerOpen, ValidHandles, LeftOpen,
      Types
<1>26. CASE t \in Threads /\ MmapFails(t)
  BY <1>26, VnodeAssumption, FreshIsNew, SMTT(10)
  DEF MmapFails, Goto, Map, Leave, GetRefused, GetCut, Opened, Valid, daemon,
      vnode, locks, thread, TypeInv, Typed, PCs, Placed, HandleInv, Making,
      Nonexistent, InTheMaking, OneReleasePerOpen, ValidHandles, LeftOpen,
      Types
<1>27. CASE t \in Threads /\ Munmap(t)
  BY <1>27, VnodeAssumption, FreshIsNew, SMTT(10)
  DEF Munmap, Map, daemon, vnode, locks, thread, TypeInv, Typed, PCs, Placed,
      HandleInv, Making, Nonexistent, InTheMaking, OneReleasePerOpen,
      ValidHandles, Valid, LeftOpen, Types
<1>28. CASE Page
  BY <1>28, VnodeAssumption, FreshIsNew, SMTT(10)
  DEF Page, Get, GetCut, Opened, Valid, daemon, vnode, locks, thread,
      TypeInv, Typed, PCs, Placed, HandleInv, Making, Nonexistent,
      InTheMaking, OneReleasePerOpen, ValidHandles, LeftOpen, Types
<1>29. CASE Inactive
  BY <1>29, VnodeAssumption, FreshIsNew, SMTT(10)
  DEF Inactive, Referenced, Put, Reset, LeftOpen, daemon, vnode, locks,
      thread, TypeInv, Typed, PCs, Placed, HandleInv, Making, Nonexistent,
      InTheMaking, OneReleasePerOpen, ValidHandles, Valid, Types
<1>30. CASE Reclaim
  BY <1>30, VnodeAssumption, FreshIsNew, SMTT(10)
  DEF Reclaim, Referenced, Put, Reset, LeftOpen, ToForget, daemon, vnode,
      locks, thread, TypeInv, Typed, PCs, Placed, HandleInv, Making,
      Nonexistent, InTheMaking, OneReleasePerOpen, ValidHandles, Valid, Types
<1>31. CASE Forget
  BY <1>31, VnodeAssumption, FreshIsNew, SMTT(10)
  DEF Forget, daemon, vnode, locks, thread, TypeInv, Typed, PCs, Placed,
      HandleInv, Making, Nonexistent, InTheMaking, OneReleasePerOpen,
      ValidHandles, Valid, LeftOpen, Types
<1>32. CASE Die
  BY <1>32, VnodeAssumption, FreshIsNew, SMTT(10)
  DEF Die, daemon, vnode, locks, thread, TypeInv, Typed, PCs, Placed,
      HandleInv, Making, Nonexistent, InTheMaking, OneReleasePerOpen,
      ValidHandles, Valid, LeftOpen, Types
<1> QED
  BY <1>1, <1>2, <1>3, <1>4, <1>5, <1>6, <1>7, <1>8, <1>9, <1>10, <1>11,
     <1>12, <1>13, <1>14, <1>15, <1>16, <1>17, <1>18, <1>19, <1>20, <1>21,
     <1>22, <1>23, <1>24, <1>25, <1>26, <1>27, <1>28, <1>29, <1>30, <1>31,
     <1>32
  DEF Step, ThreadStep

-----------------------------------------------------------------------------

(* Every step is one of these.                                             *)
LEMMA StepOfNext ==
  ASSUME Next
  PROVE  \E t : Step(t)
BY Zenon DEF Next, Makes, Open, Mmap, Step, ThreadStep

(* The invariant holds at the start ...                                    *)
THEOREM InvariantInit == Init => IInv
<1> SUFFICES ASSUME Init PROVE IInv
  OBVIOUS
<1>1. /\ \A ty \in Types : fufh[ty].count = 0 /\ fufh[ty].fh = NoOne
      /\ \A t \in Threads : pc[t] = "idle" /\ file[t] = NoOne /\ map[t] = NoOne
  BY DEF Init, Closed
<1>2. \A ty \in Types : Openers(ty) = {} /\ Mappers(ty) = {} /\ ~Valid(ty)
  BY <1>1, VnodeAssumption DEF Openers, Mappers, Valid
<1>3. Typed
  <2>1. fufh \in [Types -> [count : Nat, fh : Handles \cup {NoOne}]]
    BY DEF Init, Closed
  <2>2. exists \in BOOLEAN /\ dead \in BOOLEAN /\ live \in BOOLEAN
        /\ active \in BOOLEAN
    BY Zenon DEF Init
  <2> QED BY <2>1, <2>2, VnodeAssumption DEF Init, Typed, Closed, PCs
<1>4. CountsBounded
  <2>1. \A ty \in Types : fufh[ty].count = 0 /\ Users(ty) = {}
    BY <1>1, <1>2 DEF Users, Init
  <2>2. Cardinality({}) = 0 /\ MaxUses \in Nat
    BY FS_EmptySet, VnodeAssumption
  <2> QED BY <2>1, <2>2 DEF CountsBounded
<1>5. Placed /\ NeverOverForgotten /\ Making /\ InTheMaking /\ PanicValid
  BY <1>1
  DEF Init, Placed, NeverOverForgotten, Making, InTheMaking, PanicValid
<1>6. Nonexistent /\ OneReleasePerOpen /\ lost \subseteq opened
  BY <1>1, <1>2 DEF Init, Nonexistent, OneReleasePerOpen, ValidHandles
<1>7. Counted
  BY <1>1, <1>2, FS_EmptySet DEF Counted
<1> QED BY <1>3, <1>4, <1>5, <1>6, <1>7 DEF IInv, TypeInv, HandleInv

(* ... every step keeps it ...                                             *)
THEOREM InvariantStep == IInv /\ [Next]_vars => IInv'
<1> SUFFICES ASSUME IInv, [Next]_vars PROVE IInv'
  OBVIOUS
<1>1. CASE UNCHANGED vars
  <2> USE <1>1 DEF vars, daemon, vnode, locks, thread
  <2>1. TypeInv => TypeInv'
    BY Zenon DEF TypeInv, Typed, Placed, CountsBounded, Users, Openers,
       NeverOverForgotten
  <2>2. HandleInv => HandleInv'
    <3>1. Making' = Making /\ Nonexistent' = Nonexistent
      BY Zenon DEF Making, Nonexistent, Valid
    <3>2. InTheMaking' = InTheMaking /\ Counted' = Counted
      BY Zenon DEF InTheMaking, Valid, Counted, Openers, Mappers
    <3>3. OneReleasePerOpen' = OneReleasePerOpen /\ PanicValid' = PanicValid
      BY Zenon DEF OneReleasePerOpen, ValidHandles, Valid, PanicValid
    <3> QED BY <3>1, <3>2, <3>3, Zenon DEF HandleInv
  <2> QED BY <2>1, <2>2 DEF IInv
<1>2. CASE Next
  <2>1. PICK t : Step(t)
    BY <1>2, StepOfNext
  <2>2. TypeInv'
    BY <2>1, TypedStep, PlacedStep, BoundedStep, ForgottenStep
    DEF IInv, TypeInv
  <2>3. OneCreator => HandleInv'
    BY <2>1, MakingStep, NonexistentStep, InTheMakingStep, LostStep,
       ReleaseStep, CoverStep, PanicStep
    DEF IInv, HandleInv
  <2> QED BY <2>2, <2>3 DEF IInv
<1> QED BY <1>1, <1>2

(* ... and so it holds throughout.                                         *)
THEOREM InvariantHolds == Spec => []IInv
BY InvariantInit, InvariantStep, PTL DEF Spec

(* Every variable keeps its type, and no use count runs away: it never is  *)
(* above the mappings' share and one for every thread.                     *)
THEOREM TypesHold == Spec => []TypeOK
<1>1. IInv => TypeOK
  <2> SUFFICES ASSUME IInv PROVE TypeOK
    OBVIOUS
  <2>1. Typed /\ CountsBounded /\ NeverOverForgotten
    BY DEF IInv, TypeInv
  <2>2. \A ty \in Types :
          fufh[ty].count \in 0..(MaxUses + Cardinality(Threads))
    <3> SUFFICES ASSUME NEW ty \in Types
                 PROVE  fufh[ty].count <= MaxUses + Cardinality(Threads)
      BY <2>1 DEF Typed
    <3>1. /\ Cardinality(Users(ty)) <= Cardinality(Threads)
          /\ Cardinality(Users(ty)) \in Nat /\ Cardinality(Threads) \in Nat
      BY FS_Subset, FS_CardinalityType, VnodeAssumption DEF Users, Openers
    <3> QED BY <2>1, <3>1, VnodeAssumption DEF CountsBounded, Typed
  <2>3. fufh \in [Types -> [count : 0..(MaxUses + Cardinality(Threads)),
                          fh : Handles \cup {NoOne}]]
    BY <2>1, <2>2 DEF Typed
  <2>4. forgets \in 0..MaxKnown /\ nlookup \in 0..MaxKnown
    BY <2>1, VnodeAssumption DEF Typed, NeverOverForgotten
  <2> QED BY <2>1, <2>3, <2>4 DEF Typed, TypeOK
<1> QED BY <1>1, InvariantHolds, PTL

(* The daemon is not told to forget a file the kernel still has.           *)
THEOREM LookupsAreCovered == Spec => []NeverOverForgotten
<1>1. IInv => NeverOverForgotten
  BY DEF IInv, TypeInv
<1> QED BY <1>1, InvariantHolds, PTL

(* If one program at most creates the file, one RELEASE answers each OPEN  *)
(* and each CREATE, and the handles in use are those the daemon has open.  *)
THEOREM ReleasesMatchOpens ==
  ASSUME OneCreator
  PROVE  Spec => []OneReleasePerOpen
<1>1. IInv => OneReleasePerOpen
  BY OneCreator DEF IInv, HandleInv
<1> QED BY <1>1, InvariantHolds, PTL

(* If one program at most creates the file, nothing takes the handle away  *)
(* from a program that has the file open or mapped: the use counts cover   *)
(* the programs.                                                           *)
THEOREM WhatIsUsedIsOpen ==
  ASSUME OneCreator
  PROVE  Spec => []InUseIsOpen
<1>1. IInv => InUseIsOpen
  <2> SUFFICES ASSUME IInv, ~dead, NEW t \in Threads
               PROVE  /\ pc[t] \in {"open", "preflight"} => Valid(file[t])
                      /\ pc[t] # "preflight" /\ map[t] # NoOne => Valid(map[t])
    BY DEF InUseIsOpen
  <2>1. Typed /\ Placed /\ Counted /\ PanicValid
    BY OneCreator DEF IInv, TypeInv, HandleInv
  <2>2. ASSUME NEW ty \in Types, t \in Openers(ty) \cup Mappers(ty)
        PROVE  Valid(ty)
    <3>1. IsFiniteSet(Openers(ty)) /\ IsFiniteSet(Mappers(ty))
      BY FS_Subset, VnodeAssumption DEF Openers, Mappers
    <3>2. /\ Cardinality(Openers(ty)) \in Nat
          /\ Cardinality(Mappers(ty)) \in Nat
          /\ Cardinality(Openers(ty)) = 0 => Openers(ty) = {}
          /\ Cardinality(Mappers(ty)) = 0 => Mappers(ty) = {}
      BY <3>1, FS_CardinalityType, FS_EmptySet
    <3>3. /\ fufh[ty].count \in Nat
          /\ fufh[ty].count >= Cardinality(Openers(ty))
                                + Cardinality(Mappers(ty))
      BY <2>1 DEF Counted, Typed
    <3>4. Openers(ty) # {} \/ Mappers(ty) # {}
      BY <2>2
    <3>5. fufh[ty].count # 0
      BY <3>2, <3>3, <3>4
    <3> QED BY <3>3, <3>5 DEF Valid
  <2>3. file[t] # NoOne => file[t] \in Types
    BY <2>1, VnodeAssumption DEF Typed
  <2>4. pc[t] \in {"open", "preflight"} => t \in Openers(file[t])
    BY DEF Openers
  <2>5. pc[t] \notin {"preflight", "panic"} => t \in Mappers(map[t])
    BY DEF Mappers
  <2> QED BY <2>1, <2>2, <2>3, <2>4, <2>5, VnodeAssumption
      DEF Typed, Placed, PanicValid
<1> QED BY <1>1, InvariantHolds, PTL

NeverWoken == \A t \in Threads : pc[t] # "woken"

(* A thread that sleeps on a file in the making is never woken: it has the *)
(* locks that the creator needs to open the file and wake it.              *)
THEOREM SleepersAreNotWoken == Spec => []NeverWoken
<1>1. IInv => NeverWoken
  BY DEF IInv, TypeInv, Typed, PCs, NeverWoken
<1> QED BY <1>1, InvariantHolds, PTL

=============================================================================
