------------------------- MODULE UnixfsInodesProofs -------------------------
(* The inode layer of UnixFS keeps its table and counts right, and misuses *)
(* no memory unless a read fails under a waiter, for any number of threads,*)
(* inodes, cells and open files.                                           *)
EXTENDS UnixfsInodes, FiniteSetTheorems, TLAPS

(* Where a thread is says what it holds.                                   *)
Threading ==
  \A t \in Threads :
    /\ ip[t] = None <=> pc[t] \in {"idle", "look", "alloc", "scan"}
    /\ spare[t] # None => pc[t] \in {"look", "wait"}
    /\ dp[t] # None => pc[t] # "idle" /\ op[t] \in {"lookup", "readdir"}
    /\ pc[t] = "scan" => dp[t] # None

(* The table and its counts.                                               *)
Counting ==
  /\ ihash_count = Cardinality(table)
  /\ \A n \in Cells : count[n] = Refs(n)
  /\ \A n \in table : count[n] > 0
  /\ \A m, n \in table : num[m] = num[n] => m = n

(* Cells in use by nobody: free ones, and the spares of the threads.       *)
Blank(n) ==
  count[n] = 0 /\ n \notin table \cup initialized \cup attaching \cup waiting

Heap ==
  /\ \A n \in Cells : num[n] = None => Blank(n)
  /\ \A t \in Threads : spare[t] # None =>
       num[spare[t]] = ino[t] /\ Blank(spare[t])
  /\ \A t, u \in Threads : spare[t] = spare[u] /\ spare[t] # None => t = u

(* Cells that a failed read has taken off the table.                       *)
Failing ==
  /\ \A n \in Cells \ table : num[n] # None =>
       \E t \in Threads : \/ spare[t] = n
                          \/ ip[t] = n /\ pc[t] = "failed"
  /\ \A t \in Threads : pc[t] = "failed" => ip[t] \notin table
  /\ \A t, u \in Threads :
       pc[t] = "failed" /\ pc[u] = "failed" /\ ip[t] = ip[u] => t = u

(* The flags of a cell, and where those are who refer to it.               *)
Flags ==
  /\ attaching \subseteq table /\ waiting \subseteq attaching
  /\ \A n \in table : n \in attaching <=> n \notin initialized
  /\ \A t \in Threads : ip[t] \in table =>
       /\ pc[t] = "read" => ip[t] \in attaching
       /\ pc[t] \in {"use", "put"} => ip[t] \in initialized
       /\ pc[t] = "wait" /\ ip[t] \in attaching => ip[t] \in waiting
  /\ \A t \in Threads : dp[t] \in table => dp[t] \in initialized
  /\ \A f \in Files : fh[f] \in table => fh[f] \in initialized
  /\ \A t, u \in Threads :
       pc[t] \in {"got", "read"} /\ pc[u] \in {"got", "read"}
       /\ ip[t] = ip[u] /\ ip[t] \in attaching => t = u

Numbers ==
  \A t \in Threads : pc[t] \in {"wait", "got", "read", "use"} =>
    num[ip[t]] = ino[t]

(* Unless a read has failed under a waiter, what is referred to is in the  *)
(* table, except for the cell that a failed read is about to free.         *)
Hashed ==
  /\ \A t \in Threads : ip[t] # None /\ pc[t] # "failed" => ip[t] \in table
  /\ \A t \in Threads : dp[t] # None => dp[t] \in table
  /\ \A f \in Files : fh[f] # None => fh[f] \in table

Sound == /\ Threading /\ Counting /\ Heap /\ Failing /\ Flags /\ Numbers
         /\ stranded \/ Hashed

IInv == /\ TypeOK /\ UndefinedOnlyIfStranded
        /\ crashed # "undefined" => Sound

-----------------------------------------------------------------------------
(* Counting who refers to a cell.                                          *)

SameBut(S, x, g, h) == \A s \in S \ {x} : h[s] = g[s]

(* How many arguments a function takes to a value, when it changes at one. *)
LEMMA CountExcept ==
  ASSUME NEW S, IsFiniteSet(S), NEW x \in S, NEW n, NEW g, NEW h,
         SameBut(S, x, g, h)
  PROVE  Cardinality(Holders(S, h, n))
           = Cardinality(Holders(S, g, n))
             - (IF g[x] = n THEN 1 ELSE 0) + (IF h[x] = n THEN 1 ELSE 0)
<1> DEFINE Old == Holders(S, g, n)
           New == Holders(S, h, n)
<1>1. IsFiniteSet(Old) /\ IsFiniteSet(New)
  BY FS_Subset DEF Holders
<1>2. Cardinality(Old) \in Nat /\ Cardinality(New) \in Nat
  BY <1>1, FS_CardinalityType
<1>3. CASE (g[x] = n) = (h[x] = n)
  <2>1. New = Old
    BY <1>3 DEF Holders, SameBut
  <2>2. Cardinality(New) = Cardinality(Old)
    BY <2>1
  <2> QED BY <2>2, <1>2, <1>3
<1>4. CASE g[x] = n /\ h[x] # n
  <2>1. New = Old \ {x} /\ x \in Old
    BY <1>4 DEF Holders, SameBut
  <2>2. Cardinality(New) = Cardinality(Old) - 1
    BY <2>1, <1>1, FS_RemoveElement
  <2> QED BY <2>2, <1>2, <1>4
<1>5. CASE g[x] # n /\ h[x] = n
  <2>1. New = Old \cup {x} /\ x \notin Old
    BY <1>5 DEF Holders, SameBut
  <2>2. Cardinality(New) = Cardinality(Old) + 1
    BY <2>1, <1>1, FS_AddElement
  <2> QED BY <2>2, <1>2, <1>5
<1> QED BY <1>3, <1>4, <1>5

(* What a small number of such arguments says.                             *)
LEMMA CountSmall ==
  ASSUME NEW S, IsFiniteSet(S), NEW g, NEW n
  PROVE  LET C == Cardinality(Holders(S, g, n))
         IN  /\ C \in Nat
             /\ C = 0 => \A s \in S : g[s] # n
             /\ C = 1 => \A r, s \in S : g[r] = n /\ g[s] = n => r = s
<1> DEFINE P == Holders(S, g, n)
<1>1. IsFiniteSet(P)
  BY FS_Subset DEF Holders
<1>2. Cardinality(P) \in Nat
  BY <1>1, FS_CardinalityType
<1>3. ASSUME Cardinality(P) = 0 PROVE \A s \in S : g[s] # n
  <2>1. P = {}
    BY <1>1, <1>3, FS_EmptySet
  <2> QED BY <2>1 DEF Holders
<1>4. ASSUME Cardinality(P) = 1
      PROVE  \A r, s \in S : g[r] = n /\ g[s] = n => r = s
  <2>1. PICK x : P = {x}
    BY <1>1, <1>4, FS_Singleton
  <2> QED BY <2>1 DEF Holders
<1> QED BY <1>2, <1>3, <1>4

(* A cell that nobody, or one thread only, refers to.                      *)
LEMMA FewRefs ==
  ASSUME NEW n
  PROVE  /\ Refs(n) \in Nat
         /\ Refs(n) = 0 => /\ \A t \in Threads : ip[t] # n /\ dp[t] # n
                           /\ \A f \in Files : fh[f] # n
         /\ \A t \in Threads : ip[t] = n =>
              /\ Refs(n) >= 1
              /\ Refs(n) = 1 => /\ \A u \in Threads : ip[u] = n => u = t
                                /\ \A u \in Threads : dp[u] # n
                                /\ \A f \in Files : fh[f] # n
<1> DEFINE I == Cardinality(Holders(Threads, ip, n))
           D == Cardinality(Holders(Threads, dp, n))
           F == Cardinality(Holders(Files, fh, n))
<1>1. /\ I \in Nat
      /\ I = 0 => \A s \in Threads : ip[s] # n
      /\ I = 1 => \A r, s \in Threads : ip[r] = n /\ ip[s] = n => r = s
  BY CountSmall, ConstantsAssumption
<1>2. D \in Nat /\ (D = 0 => \A s \in Threads : dp[s] # n)
  BY CountSmall, ConstantsAssumption
<1>3. F \in Nat /\ (F = 0 => \A s \in Files : fh[s] # n)
  BY CountSmall, ConstantsAssumption
<1>4. Refs(n) = I + D + F
  BY DEF Refs, RefsIn
<1>5. \A t \in Threads : ip[t] = n => I # 0
  BY <1>1
<1> HIDE DEF I, D, F
<1> QED BY <1>1, <1>2, <1>3, <1>4, <1>5

(* The same of the three things that refer to cells.                       *)
LEMMA CountIp ==
  ASSUME NEW t \in Threads, NEW n, SameBut(Threads, t, ip, ip')
  PROVE  Cardinality(Holders(Threads, ip, n))'
           = Cardinality(Holders(Threads, ip, n))
             - (IF ip[t] = n THEN 1 ELSE 0) + (IF ip'[t] = n THEN 1 ELSE 0)
<1>1. IsFiniteSet(Threads)
  BY ConstantsAssumption
<1> QED BY <1>1, CountExcept

LEMMA CountDp ==
  ASSUME NEW t \in Threads, NEW n, SameBut(Threads, t, dp, dp')
  PROVE  Cardinality(Holders(Threads, dp, n))'
           = Cardinality(Holders(Threads, dp, n))
             - (IF dp[t] = n THEN 1 ELSE 0) + (IF dp'[t] = n THEN 1 ELSE 0)
<1>1. IsFiniteSet(Threads)
  BY ConstantsAssumption
<1> QED BY <1>1, CountExcept

LEMMA CountFh ==
  ASSUME NEW f \in Files, NEW n, SameBut(Files, f, fh, fh')
  PROVE  Cardinality(Holders(Files, fh, n))'
           = Cardinality(Holders(Files, fh, n))
             - (IF fh[f] = n THEN 1 ELSE 0) + (IF fh'[f] = n THEN 1 ELSE 0)
<1>1. IsFiniteSet(Files)
  BY ConstantsAssumption
<1> QED BY <1>1, CountExcept

(* How a step of a thread changes how many refer to a cell.                *)
LEMMA RefsOfThread ==
  ASSUME NEW t \in Threads, NEW n,
         SameBut(Threads, t, ip, ip'), SameBut(Threads, t, dp, dp'), fh' = fh
  PROVE  RefsIn(ip', dp', fh', n)
           = Refs(n) - (IF ip[t] = n THEN 1 ELSE 0)
             + (IF ip'[t] = n THEN 1 ELSE 0)
             - (IF dp[t] = n THEN 1 ELSE 0)
             + (IF dp'[t] = n THEN 1 ELSE 0)
<1> DEFINE I == Cardinality(Holders(Threads, ip, n))
           D == Cardinality(Holders(Threads, dp, n))
           F == Cardinality(Holders(Files, fh, n))
<1>1. I' = I - (IF ip[t] = n THEN 1 ELSE 0) + (IF ip'[t] = n THEN 1 ELSE 0)
  BY CountIp
<1>2. D' = D - (IF dp[t] = n THEN 1 ELSE 0) + (IF dp'[t] = n THEN 1 ELSE 0)
  BY CountDp
<1>3. I \in Nat /\ D \in Nat /\ F \in Nat
  BY CountSmall, ConstantsAssumption
<1>4. F' = F
  OBVIOUS
<1>5. Refs(n) = I + D + F /\ RefsIn(ip', dp', fh', n) = I' + D' + F'
  BY DEF Refs, RefsIn
<1> HIDE DEF I, D, F
<1> QED BY <1>1, <1>2, <1>3, <1>4, <1>5

LEMMA RefsOfFile ==
  ASSUME NEW t \in Threads, NEW f \in Files, NEW n,
         SameBut(Threads, t, ip, ip'), SameBut(Files, f, fh, fh'), dp' = dp
  PROVE  RefsIn(ip', dp', fh', n)
           = Refs(n) - (IF ip[t] = n THEN 1 ELSE 0)
             + (IF ip'[t] = n THEN 1 ELSE 0)
             - (IF fh[f] = n THEN 1 ELSE 0)
             + (IF fh'[f] = n THEN 1 ELSE 0)
<1> DEFINE I == Cardinality(Holders(Threads, ip, n))
           D == Cardinality(Holders(Threads, dp, n))
           F == Cardinality(Holders(Files, fh, n))
<1>1. I' = I - (IF ip[t] = n THEN 1 ELSE 0) + (IF ip'[t] = n THEN 1 ELSE 0)
  BY CountIp
<1>2. F' = F - (IF fh[f] = n THEN 1 ELSE 0) + (IF fh'[f] = n THEN 1 ELSE 0)
  BY CountFh
<1>3. I \in Nat /\ D \in Nat /\ F \in Nat
  BY CountSmall, ConstantsAssumption
<1>4. D' = D
  OBVIOUS
<1>5. Refs(n) = I + D + F /\ RefsIn(ip', dp', fh', n) = I' + D' + F'
  BY DEF Refs, RefsIn
<1> HIDE DEF I, D, F
<1> QED BY <1>1, <1>2, <1>3, <1>4, <1>5

(* Nobody refers to a blank cell.                                          *)
LEMMA BlankIsUnused ==
  ASSUME Counting, NEW n \in Cells, Blank(n)
  PROVE  /\ \A t \in Threads : ip[t] # n /\ dp[t] # n
         /\ \A f \in Files : fh[f] # n
BY FewRefs DEF Counting, Blank

(* The accounts stay right when no cell enters or leaves the table.        *)
LEMMA CountingKept ==
  ASSUME Counting, TypeOK, table' = table, ihash_count' = ihash_count,
         \A n \in table : num'[n] = num[n] /\ count'[n] > 0,
         \A n \in Cells : count'[n] = RefsIn(ip', dp', fh', n)
  PROVE  Counting'
<1>1. \A n \in Cells : count'[n] = Refs(n)'
  BY DEF Refs
<1> QED BY <1>1 DEF Counting, TypeOK

LEMMA StartSound ==
  ASSUME TypeOK, Sound, NEW t \in Threads, Start(t)
  PROVE  crashed' # "undefined" => Sound'
<1>0. \A n \in Cells : RefsIn(ip', dp', fh', n) = Refs(n)
  BY DEF Refs, Start, request
<1>1. Threading'
  BY <1>0, ConstantsAssumption, SMTT(10)
  DEF Start, MayOpen, At, Goto, cells, hash, request, TypeOK, Sound,
      Threading
<1>2. Counting'
  <2>1. /\ table' = table /\ ihash_count' = ihash_count
        /\ \A n \in table : num'[n] = num[n]
    BY SMTT(10)
    DEF Start, MayOpen, At, Goto, cells, hash, request, TypeOK, Sound,
        Heap, Blank
  <2>2. \A n \in Cells : count'[n] = RefsIn(ip', dp', fh', n)
    BY <1>0
    DEF Start, MayOpen, At, Goto, cells, hash, request, TypeOK, Sound,
        Counting, Found
  <2>3. \A n \in table : count'[n] > 0
    BY SMTT(10)
    DEF Start, MayOpen, At, Goto, cells, hash, request, TypeOK, Sound,
        Counting, Failing
  <2> QED BY <2>1, <2>2, <2>3, CountingKept DEF Sound
<1>3. Heap'
  BY ConstantsAssumption, SMTT(20)
  DEF Start, MayOpen, At, Goto, cells, hash, request, TypeOK, Sound,
      Heap, Blank, Threading
<1>4. Failing'
  BY <1>0, ConstantsAssumption, SMTT(10)
  DEF Start, MayOpen, At, Goto, cells, hash, request, TypeOK, Sound,
      Failing
<1>5. Flags'
  BY <1>0, ConstantsAssumption, SMTT(10)
  DEF Start, MayOpen, At, Goto, cells, hash, request, TypeOK, Sound,
      Flags
<1>6. Numbers'
  BY <1>0, ConstantsAssumption, SMTT(10)
  DEF Start, MayOpen, At, Goto, cells, hash, request, TypeOK, Sound,
      Numbers
<1>7. (stranded \/ Hashed)'
  BY <1>0, ConstantsAssumption, SMTT(10)
  DEF Start, MayOpen, At, Goto, cells, hash, request, TypeOK, Sound,
      Hashed
<1> QED BY <1>1, <1>2, <1>3, <1>4, <1>5, <1>6, <1>7 DEF Sound

LEMMA ReleaseSound ==
  ASSUME TypeOK, Sound, NEW t \in Threads, Release(t)
  PROVE  crashed' # "undefined" => Sound'
<1>0. \A n \in Cells : RefsIn(ip', dp', fh', n) = Refs(n)
  <2>1. PICK f \in Files : /\ fh[f] # None
                           /\ ip' = [ip EXCEPT ![t] = fh[f]]
                           /\ fh' = [fh EXCEPT ![f] = None]
    BY DEF Release
  <2>2. /\ SameBut(Threads, t, ip, ip') /\ ip[t] = None /\ ip'[t] = fh[f]
        /\ SameBut(Files, f, fh, fh') /\ fh'[f] = None
        /\ dp' = dp /\ None \notin Cells
    BY <2>1, ConstantsAssumption
    DEF Release, request, At, Sound, Threading, TypeOK, SameBut
  <2>3. TAKE n \in Cells
  <2>4. RefsIn(ip', dp', fh', n)
          = Refs(n) - (IF ip[t] = n THEN 1 ELSE 0)
            + (IF ip'[t] = n THEN 1 ELSE 0)
            - (IF fh[f] = n THEN 1 ELSE 0)
            + (IF fh'[f] = n THEN 1 ELSE 0)
    BY <2>2, RefsOfFile
  <2>5. Refs(n) \in Nat
    BY FewRefs
  <2> QED BY <2>1, <2>2, <2>4, <2>5
<1>1. Threading'
  BY <1>0, ConstantsAssumption, SMTT(10)
  DEF Release, At, Goto, cells, hash, request, TypeOK, Sound, Threading
<1>2. Counting'
  <2>1. /\ table' = table /\ ihash_count' = ihash_count
        /\ \A n \in table : num'[n] = num[n]
    BY SMTT(10)
    DEF Release, At, Goto, cells, hash, request, TypeOK, Sound, Heap,
        Blank
  <2>2. \A n \in Cells : count'[n] = RefsIn(ip', dp', fh', n)
    BY <1>0
    DEF Release, At, Goto, cells, hash, request, TypeOK, Sound,
        Counting, Found
  <2>3. \A n \in table : count'[n] > 0
    BY SMTT(10)
    DEF Release, At, Goto, cells, hash, request, TypeOK, Sound,
        Counting, Failing
  <2> QED BY <2>1, <2>2, <2>3, CountingKept DEF Sound
<1>3. Heap'
  BY <1>0, ConstantsAssumption, SMTT(10)
  DEF Release, At, Goto, cells, hash, request, TypeOK, Sound, Heap,
      Blank
<1>4. Failing'
  BY <1>0, ConstantsAssumption, SMTT(10)
  DEF Release, At, Goto, cells, hash, request, TypeOK, Sound, Failing
<1>5. Flags'
  BY <1>0, ConstantsAssumption, SMTT(10)
  DEF Release, At, Goto, cells, hash, request, TypeOK, Sound, Flags
<1>6. Numbers'
  BY <1>0, ConstantsAssumption, SMTT(10)
  DEF Release, At, Goto, cells, hash, request, TypeOK, Sound, Numbers
<1>7. (stranded \/ Hashed)'
  BY <1>0, ConstantsAssumption, SMTT(10)
  DEF Release, At, Goto, cells, hash, request, TypeOK, Sound, Hashed
<1> QED BY <1>1, <1>2, <1>3, <1>4, <1>5, <1>6, <1>7 DEF Sound

LEMMA LookMissSound ==
  ASSUME TypeOK, Sound, NEW t \in Threads, LookMiss(t)
  PROVE  crashed' # "undefined" => Sound'
<1>0. \A n \in Cells : RefsIn(ip', dp', fh', n) = Refs(n)
  BY DEF Refs, LookMiss, request
<1>1. Threading'
  BY <1>0, ConstantsAssumption, SMTT(10)
  DEF LookMiss, At, Goto, cells, hash, request, TypeOK, Sound, Threading
<1>2. Counting'
  <2>1. /\ table' = table /\ ihash_count' = ihash_count
        /\ \A n \in table : num'[n] = num[n]
    BY SMTT(10)
    DEF LookMiss, At, Goto, cells, hash, request, TypeOK, Sound, Heap,
        Blank
  <2>2. \A n \in Cells : count'[n] = RefsIn(ip', dp', fh', n)
    BY <1>0
    DEF LookMiss, At, Goto, cells, hash, request, TypeOK, Sound,
        Counting, Found
  <2>3. \A n \in table : count'[n] > 0
    BY SMTT(10)
    DEF LookMiss, At, Goto, cells, hash, request, TypeOK, Sound,
        Counting, Failing
  <2> QED BY <2>1, <2>2, <2>3, CountingKept DEF Sound
<1>3. Heap'
  BY <1>0, ConstantsAssumption, SMTT(10)
  DEF LookMiss, At, Goto, cells, hash, request, TypeOK, Sound, Heap,
      Blank
<1>4. Failing'
  BY <1>0, ConstantsAssumption, SMTT(10)
  DEF LookMiss, At, Goto, cells, hash, request, TypeOK, Sound, Failing
<1>5. Flags'
  BY <1>0, ConstantsAssumption, SMTT(10)
  DEF LookMiss, At, Goto, cells, hash, request, TypeOK, Sound, Flags
<1>6. Numbers'
  BY <1>0, ConstantsAssumption, SMTT(10)
  DEF LookMiss, At, Goto, cells, hash, request, TypeOK, Sound, Numbers
<1>7. (stranded \/ Hashed)'
  BY <1>0, ConstantsAssumption, SMTT(10)
  DEF LookMiss, At, Goto, cells, hash, request, TypeOK, Sound, Hashed
<1> QED BY <1>1, <1>2, <1>3, <1>4, <1>5, <1>6, <1>7 DEF Sound

LEMMA AllocSound ==
  ASSUME TypeOK, Sound, NEW t \in Threads, Alloc(t)
  PROVE  crashed' # "undefined" => Sound'
<1>0. \A n \in Cells : RefsIn(ip', dp', fh', n) = Refs(n)
  BY DEF Refs, Alloc, request
<1>1. Threading'
  BY <1>0, ConstantsAssumption, SMTT(10)
  DEF Alloc, At, Goto, cells, hash, request, TypeOK, Sound, Threading
<1>2. Counting'
  <2>1. /\ table' = table /\ ihash_count' = ihash_count
        /\ \A n \in table : num'[n] = num[n]
    BY SMTT(10)
    DEF Alloc, At, Goto, cells, hash, request, TypeOK, Sound, Heap,
        Blank
  <2>2. \A n \in Cells : count'[n] = RefsIn(ip', dp', fh', n)
    BY <1>0
    DEF Alloc, At, Goto, cells, hash, request, TypeOK, Sound,
        Counting, Found
  <2>3. \A n \in table : count'[n] > 0
    BY SMTT(10)
    DEF Alloc, At, Goto, cells, hash, request, TypeOK, Sound,
        Counting, Failing
  <2> QED BY <2>1, <2>2, <2>3, CountingKept DEF Sound
<1>3. Heap'
  BY <1>0, ConstantsAssumption, SMTT(10)
  DEF Alloc, At, Goto, cells, hash, request, TypeOK, Sound, Heap, Blank
<1>4. Failing'
  BY ConstantsAssumption, SMTT(20)
  DEF Alloc, At, Goto, cells, hash, request, TypeOK, Sound, Failing,
      Threading
<1>5. Flags'
  BY <1>0, ConstantsAssumption, SMTT(10)
  DEF Alloc, At, Goto, cells, hash, request, TypeOK, Sound, Flags
<1>6. Numbers'
  BY <1>0, ConstantsAssumption, SMTT(10)
  DEF Alloc, At, Goto, cells, hash, request, TypeOK, Sound, Numbers
<1>7. (stranded \/ Hashed)'
  BY <1>0, ConstantsAssumption, SMTT(10)
  DEF Alloc, At, Goto, cells, hash, request, TypeOK, Sound, Hashed
<1> QED BY <1>1, <1>2, <1>3, <1>4, <1>5, <1>6, <1>7 DEF Sound

LEMMA LookInsertSound ==
  ASSUME TypeOK, Sound, NEW t \in Threads, LookInsert(t)
  PROVE  crashed' # "undefined" => Sound'
<1>0. \A n \in Cells : RefsIn(ip', dp', fh', n) = Refs(n) + (IF n = spare[t] THEN 1 ELSE 0)
  <2>1. /\ SameBut(Threads, t, ip, ip') /\ ip'[t] = spare[t]
        /\ SameBut(Threads, t, dp, dp') /\ dp'[t] = dp[t]
        /\ fh' = fh /\ None \notin Cells /\ ip[t] = None /\ spare[t] \in Cells
    BY ConstantsAssumption
    DEF LookInsert, At, cells, hash, request, Sound, Threading, TypeOK, SameBut
  <2> QED BY <2>1, RefsOfThread, FewRefs
<1>1. Threading'
  BY <1>0, ConstantsAssumption, SMTT(10)
  DEF LookInsert, Found, At, Goto, cells, hash, request, TypeOK, Sound,
      Threading
<1>2. Counting'
  <2>1. /\ spare[t] \in Cells /\ Blank(spare[t]) /\ num[spare[t]] = ino[t]
        /\ None \notin Cells
    BY ConstantsAssumption DEF LookInsert, TypeOK, Sound, Heap
  <2>2. /\ \A u \in Threads : ip[u] # spare[t] /\ dp[u] # spare[t]
        /\ \A f \in Files : fh[f] # spare[t]
    BY <2>1, BlankIsUnused DEF Sound
  <2>3. Cardinality(table') = Cardinality(table) + 1
    BY <2>1, ConstantsAssumption, FS_Subset, FS_AddElement
    DEF LookInsert, Blank, TypeOK
  <2>4. \A n \in Cells : count'[n] = RefsIn(ip', dp', fh', n)
    <3>1. /\ count' = [count EXCEPT ![spare[t]] = @ + 1]
          /\ count \in [Cells -> Nat] /\ \A n \in Cells : count[n] = Refs(n)
      BY Zenon DEF LookInsert, TypeOK, Sound, Counting
    <3>2. TAKE n \in Cells
    <3>3. /\ RefsIn(ip', dp', fh', n)
               = Refs(n) + (IF n = spare[t] THEN 1 ELSE 0)
          /\ count[n] \in Nat
      BY <1>0, <3>1
    <3>4. count'[n] = count[n] + (IF n = spare[t] THEN 1 ELSE 0)
      BY <3>1
    <3> QED BY <3>1, <3>3, <3>4
  <2>5. \A n \in Cells : count'[n] = Refs(n)'
    BY <2>4 DEF Refs
  <2>6. \A n \in table' : count'[n] > 0
    BY <2>1, SMTT(20) DEF LookInsert, TypeOK, Sound, Counting, Blank
  <2>7. \A m, n \in table' : num'[m] = num'[n] => m = n
    BY <2>1 DEF LookInsert, Found, Sound, Counting, TypeOK
  <2> QED BY <2>3, <2>5, <2>6, <2>7 DEF Counting, LookInsert, Sound
<1>3. Heap'
  BY <1>0, ConstantsAssumption, SMTT(10)
  DEF LookInsert, Found, At, Goto, cells, hash, request, TypeOK, Sound,
      Heap, Blank
<1>4. Failing'
  <2>1. /\ spare[t] \in Cells /\ Blank(spare[t]) /\ num[spare[t]] = ino[t]
        /\ None \notin Cells
    BY ConstantsAssumption DEF LookInsert, TypeOK, Sound, Heap
  <2>2. /\ \A u \in Threads : ip[u] # spare[t] /\ dp[u] # spare[t]
        /\ \A f \in Files : fh[f] # spare[t]
    BY <2>1, BlankIsUnused DEF Sound
  <2> QED BY <2>1, <2>2, ConstantsAssumption, SMTT(20)
    DEF LookInsert, Found, At, Goto, cells, hash, request, TypeOK,
        Sound, Failing, Blank
<1>5. Flags'
  <2>1. /\ spare[t] \in Cells /\ Blank(spare[t]) /\ num[spare[t]] = ino[t]
        /\ None \notin Cells
    BY ConstantsAssumption DEF LookInsert, TypeOK, Sound, Heap
  <2>2. /\ \A u \in Threads : ip[u] # spare[t] /\ dp[u] # spare[t]
        /\ \A f \in Files : fh[f] # spare[t]
    BY <2>1, BlankIsUnused DEF Sound
  <2> QED BY <2>1, <2>2, ConstantsAssumption, SMTT(20)
    DEF LookInsert, Found, At, Goto, cells, hash, request, TypeOK,
        Sound, Flags, Blank
<1>6. Numbers'
  <2>1. /\ spare[t] \in Cells /\ Blank(spare[t]) /\ num[spare[t]] = ino[t]
        /\ None \notin Cells
    BY ConstantsAssumption DEF LookInsert, TypeOK, Sound, Heap
  <2>2. /\ \A u \in Threads : ip[u] # spare[t] /\ dp[u] # spare[t]
        /\ \A f \in Files : fh[f] # spare[t]
    BY <2>1, BlankIsUnused DEF Sound
  <2> QED BY <2>1, <2>2, ConstantsAssumption, SMTT(20)
    DEF LookInsert, Found, At, Goto, cells, hash, request, TypeOK,
        Sound, Numbers, Blank, Threading
<1>7. (stranded \/ Hashed)'
  BY <1>0, ConstantsAssumption, SMTT(10)
  DEF LookInsert, Found, At, Goto, cells, hash, request, TypeOK, Sound,
      Hashed
<1> QED BY <1>1, <1>2, <1>3, <1>4, <1>5, <1>6, <1>7 DEF Sound

LEMMA LookWaitSound ==
  ASSUME TypeOK, Sound, NEW t \in Threads, LookWait(t)
  PROVE  crashed' # "undefined" => Sound'
<1>m. PICK m \in Found(ino[t]) \cap attaching :
       /\ waiting' = waiting \cup {m}
       /\ count' = [count EXCEPT ![m] = @ + 1]
       /\ ip' = [ip EXCEPT ![t] = m]
  BY DEF LookWait
<1>0. \A n \in Cells : RefsIn(ip', dp', fh', n) = Refs(n) + (IF n = m THEN 1 ELSE 0)
  <2>1. /\ SameBut(Threads, t, ip, ip') /\ ip'[t] = m
        /\ SameBut(Threads, t, dp, dp') /\ dp'[t] = dp[t]
        /\ fh' = fh /\ None \notin Cells /\ ip[t] = None /\ m \in Cells
    BY <1>m, ConstantsAssumption
    DEF LookWait, Found, At, cells, hash, request, Sound, Threading, TypeOK, SameBut
  <2> QED BY <2>1, RefsOfThread, FewRefs
<1>1. Threading'
  BY <1>0, <1>m, ConstantsAssumption, SMTT(10)
  DEF LookWait, Found, At, Goto, cells, hash, request, TypeOK, Sound,
      Threading
<1>2. Counting'
  <2>1. /\ table' = table /\ ihash_count' = ihash_count
        /\ \A n \in table : num'[n] = num[n]
    BY <1>m, SMTT(10)
    DEF LookWait, Found, At, Goto, cells, hash, request, TypeOK,
        Sound, Heap, Blank
  <2>2. \A n \in Cells : count'[n] = RefsIn(ip', dp', fh', n)
    <3>1. /\ count' = [count EXCEPT ![m] = @ + 1]
          /\ count \in [Cells -> Nat] /\ \A n \in Cells : count[n] = Refs(n)
      BY <1>m, Zenon DEF LookWait, TypeOK, Sound, Counting
    <3>2. TAKE n \in Cells
    <3>3. /\ RefsIn(ip', dp', fh', n) = Refs(n) + (IF n = m THEN 1 ELSE 0)
          /\ count[n] \in Nat
      BY <1>0, <3>1
    <3>4. count'[n] = count[n] + (IF n = m THEN 1 ELSE 0)
      BY <3>1
    <3> QED BY <3>1, <3>3, <3>4
  <2>3. \A n \in table : count'[n] > 0
    BY <1>m, SMTT(10)
    DEF LookWait, Found, At, Goto, cells, hash, request, TypeOK,
        Sound, Counting, Failing
  <2> QED BY <2>1, <2>2, <2>3, CountingKept DEF Sound
<1>3. Heap'
  BY <1>0, <1>m, ConstantsAssumption, SMTT(10)
  DEF LookWait, Found, At, Goto, cells, hash, request, TypeOK, Sound,
      Heap, Blank
<1>4. Failing'
  BY <1>0, <1>m, ConstantsAssumption, SMTT(10)
  DEF LookWait, Found, At, Goto, cells, hash, request, TypeOK, Sound,
      Failing
<1>5. Flags'
  BY <1>0, <1>m, ConstantsAssumption, SMTT(10)
  DEF LookWait, Found, At, Goto, cells, hash, request, TypeOK, Sound,
      Flags
<1>6. Numbers'
  BY <1>0, <1>m, ConstantsAssumption, SMTT(10)
  DEF LookWait, Found, At, Goto, cells, hash, request, TypeOK, Sound,
      Numbers
<1>7. (stranded \/ Hashed)'
  BY <1>0, <1>m, ConstantsAssumption, SMTT(10)
  DEF LookWait, Found, At, Goto, cells, hash, request, TypeOK, Sound,
      Hashed
<1> QED BY <1>1, <1>2, <1>3, <1>4, <1>5, <1>6, <1>7 DEF Sound

LEMMA LookTakeSound ==
  ASSUME TypeOK, Sound, NEW t \in Threads, LookTake(t)
  PROVE  crashed' # "undefined" => Sound'
<1>m. PICK m \in Found(ino[t]) \ attaching :
       /\ attaching' =
            IF m \in initialized THEN attaching ELSE attaching \cup {m}
       /\ count' = [count EXCEPT ![m] = @ + 1]
       /\ ip' = [ip EXCEPT ![t] = m]
  BY DEF LookTake
<1>0. \A n \in Cells : RefsIn(ip', dp', fh', n) = Refs(n) + (IF n = m THEN 1 ELSE 0)
  <2>1. /\ SameBut(Threads, t, ip, ip') /\ ip'[t] = m
        /\ SameBut(Threads, t, dp, dp') /\ dp'[t] = dp[t]
        /\ fh' = fh /\ None \notin Cells /\ ip[t] = None /\ m \in Cells
    BY <1>m, ConstantsAssumption
    DEF LookTake, Found, At, cells, hash, request, Sound, Threading, TypeOK, SameBut
  <2> QED BY <2>1, RefsOfThread, FewRefs
<1>1. Threading'
  BY <1>0, <1>m, ConstantsAssumption, SMTT(10)
  DEF LookTake, Found, Return, At, Goto, cells, hash, request, TypeOK,
      Sound, Threading
<1>2. Counting'
  <2>1. /\ table' = table /\ ihash_count' = ihash_count
        /\ \A n \in table : num'[n] = num[n]
    <3>1. spare[t] \notin table
      BY ConstantsAssumption DEF TypeOK, Sound, Heap, Blank
    <3> QED BY <3>1
      DEF LookTake, Found, Return, At, Goto, cells, hash, request,
          TypeOK
  <2>2. \A n \in Cells : count'[n] = RefsIn(ip', dp', fh', n)
    <3>1. /\ count' = [count EXCEPT ![m] = @ + 1]
          /\ count \in [Cells -> Nat] /\ \A n \in Cells : count[n] = Refs(n)
      BY <1>m, Zenon DEF LookTake, TypeOK, Sound, Counting
    <3>2. TAKE n \in Cells
    <3>3. /\ RefsIn(ip', dp', fh', n) = Refs(n) + (IF n = m THEN 1 ELSE 0)
          /\ count[n] \in Nat
      BY <1>0, <3>1
    <3>4. count'[n] = count[n] + (IF n = m THEN 1 ELSE 0)
      BY <3>1
    <3> QED BY <3>1, <3>3, <3>4
  <2>3. \A n \in table : count'[n] > 0
    BY <1>m, SMTT(10)
    DEF LookTake, Found, Return, At, Goto, cells, hash, request,
        TypeOK, Sound, Counting, Failing
  <2> QED BY <2>1, <2>2, <2>3, CountingKept DEF Sound
<1>3. Heap'
  BY <1>0, <1>m, ConstantsAssumption, SMTT(10)
  DEF LookTake, Found, Return, At, Goto, cells, hash, request, TypeOK,
      Sound, Heap, Blank
<1>4. Failing'
  BY <1>0, <1>m, ConstantsAssumption, SMTT(10)
  DEF LookTake, Found, Return, At, Goto, cells, hash, request, TypeOK,
      Sound, Failing
<1>5. Flags'
  BY <1>0, <1>m, ConstantsAssumption, SMTT(10)
  DEF LookTake, Found, Return, At, Goto, cells, hash, request, TypeOK,
      Sound, Flags
<1>6. Numbers'
  <2>1. /\ spare[t] # None => spare[t] \in Cells /\ Blank(spare[t])
        /\ None \notin Cells
    BY ConstantsAssumption DEF TypeOK, Sound, Heap
  <2>2. \A u \in Threads : ip[u] # None => ip[u] # spare[t]
    BY <2>1, BlankIsUnused DEF Sound
  <2>3. m \in Cells /\ m # spare[t] /\ num[m] = ino[t]
    BY <1>m, <2>1 DEF Found, Blank, TypeOK
  <2> QED BY <1>m, <2>1, <2>2, <2>3, ConstantsAssumption, SMTT(20)
    DEF LookTake, Found, Return, At, Goto, cells, hash, request, TypeOK,
        Sound, Numbers, Threading
<1>7. (stranded \/ Hashed)'
  BY <1>0, <1>m, ConstantsAssumption, SMTT(10)
  DEF LookTake, Found, Return, At, Goto, cells, hash, request, TypeOK,
      Sound, Hashed
<1> QED BY <1>1, <1>2, <1>3, <1>4, <1>5, <1>6, <1>7 DEF Sound

LEMMA WakeSound ==
  ASSUME TypeOK, Sound, NEW t \in Threads, Wake(t)
  PROVE  crashed' # "undefined" => Sound'
<1>0. \A n \in Cells : RefsIn(ip', dp', fh', n) = Refs(n)
  BY DEF Refs, Wake, Return, request
<1>1. Threading'
  BY <1>0, ConstantsAssumption, SMTT(10)
  DEF Wake, Return, At, Goto, cells, hash, request, TypeOK, Sound,
      Threading
<1>2. Counting'
  <2>1. /\ table' = table /\ ihash_count' = ihash_count
        /\ \A n \in table : num'[n] = num[n]
    <3>1. spare[t] \notin table
      BY ConstantsAssumption DEF TypeOK, Sound, Heap, Blank
    <3> QED BY <3>1 DEF Wake, Return, At, Goto, cells, hash, request, TypeOK
  <2>2. \A n \in Cells : count'[n] = RefsIn(ip', dp', fh', n)
    BY <1>0
    DEF Wake, Return, At, Goto, cells, hash, request, TypeOK, Sound,
        Counting, Found
  <2>3. \A n \in table : count'[n] > 0
    BY SMTT(10)
    DEF Wake, Return, At, Goto, cells, hash, request, TypeOK, Sound,
        Counting, Failing
  <2> QED BY <2>1, <2>2, <2>3, CountingKept DEF Sound
<1>3. Heap'
  BY <1>0, ConstantsAssumption, SMTT(10)
  DEF Wake, Return, At, Goto, cells, hash, request, TypeOK, Sound, Heap,
      Blank
<1>4. Failing'
  BY <1>0, ConstantsAssumption, SMTT(10)
  DEF Wake, Return, At, Goto, cells, hash, request, TypeOK, Sound,
      Failing
<1>5. Flags'
  BY <1>0, ConstantsAssumption, SMTT(10)
  DEF Wake, Return, At, Goto, cells, hash, request, TypeOK, Sound, Flags
<1>6. Numbers'
  <2>1. /\ spare[t] # None => spare[t] \in Cells /\ Blank(spare[t])
        /\ None \notin Cells
    BY ConstantsAssumption DEF TypeOK, Sound, Heap
  <2>2. \A u \in Threads : ip[u] # None => ip[u] # spare[t]
    BY <2>1, BlankIsUnused DEF Sound
  <2> QED BY <2>1, <2>2, ConstantsAssumption, SMTT(20)
    DEF Wake, Return, At, Goto, cells, hash, request, TypeOK, Sound,
        Numbers, Threading
<1>7. (stranded \/ Hashed)'
  BY <1>0, ConstantsAssumption, SMTT(10)
  DEF Wake, Return, At, Goto, cells, hash, request, TypeOK, Sound,
      Hashed
<1> QED BY <1>1, <1>2, <1>3, <1>4, <1>5, <1>6, <1>7 DEF Sound

LEMMA GotSound ==
  ASSUME TypeOK, Sound, NEW t \in Threads, Got(t)
  PROVE  crashed' # "undefined" => Sound'
<1>0. \A n \in Cells : RefsIn(ip', dp', fh', n) = Refs(n)
  BY DEF Refs, Got, request
<1>1. Threading'
  BY <1>0, ConstantsAssumption, SMTT(10)
  DEF Got, At, Goto, cells, hash, request, TypeOK, Sound, Threading
<1>2. Counting'
  <2>1. /\ table' = table /\ ihash_count' = ihash_count
        /\ \A n \in table : num'[n] = num[n]
    BY SMTT(10)
    DEF Got, At, Goto, cells, hash, request, TypeOK, Sound, Heap,
        Blank
  <2>2. \A n \in Cells : count'[n] = RefsIn(ip', dp', fh', n)
    BY <1>0
    DEF Got, At, Goto, cells, hash, request, TypeOK, Sound, Counting,
        Found
  <2>3. \A n \in table : count'[n] > 0
    BY SMTT(10)
    DEF Got, At, Goto, cells, hash, request, TypeOK, Sound, Counting,
        Failing
  <2> QED BY <2>1, <2>2, <2>3, CountingKept DEF Sound
<1>3. Heap'
  BY <1>0, ConstantsAssumption, SMTT(10)
  DEF Got, At, Goto, cells, hash, request, TypeOK, Sound, Heap, Blank
<1>4. Failing'
  BY <1>0, ConstantsAssumption, SMTT(10)
  DEF Got, At, Goto, cells, hash, request, TypeOK, Sound, Failing
<1>5. Flags'
  BY <1>0, ConstantsAssumption, SMTT(10)
  DEF Got, At, Goto, cells, hash, request, TypeOK, Sound, Flags
<1>6. Numbers'
  BY <1>0, ConstantsAssumption, SMTT(10)
  DEF Got, At, Goto, cells, hash, request, TypeOK, Sound, Numbers
<1>7. (stranded \/ Hashed)'
  BY <1>0, ConstantsAssumption, SMTT(10)
  DEF Got, At, Goto, cells, hash, request, TypeOK, Sound, Hashed
<1> QED BY <1>1, <1>2, <1>3, <1>4, <1>5, <1>6, <1>7 DEF Sound

LEMMA ReadSucceedsSound ==
  ASSUME TypeOK, Sound, NEW t \in Threads, ReadSucceeds(t)
  PROVE  crashed' # "undefined" => Sound'
<1>0. \A n \in Cells : RefsIn(ip', dp', fh', n) = Refs(n)
  BY DEF Refs, ReadSucceeds, AttachOver, request
<1>1. Threading'
  BY <1>0, ConstantsAssumption, SMTT(10)
  DEF ReadSucceeds, AttachOver, At, Goto, cells, hash, request, TypeOK,
      Sound, Threading
<1>2. Counting'
  <2>1. /\ table' = table /\ ihash_count' = ihash_count
        /\ \A n \in table : num'[n] = num[n]
    BY SMTT(10)
    DEF ReadSucceeds, AttachOver, At, Goto, cells, hash, request,
        TypeOK, Sound, Heap, Blank
  <2>2. \A n \in Cells : count'[n] = RefsIn(ip', dp', fh', n)
    BY <1>0
    DEF ReadSucceeds, AttachOver, At, Goto, cells, hash, request,
        TypeOK, Sound, Counting, Found
  <2>3. \A n \in table : count'[n] > 0
    BY SMTT(10)
    DEF ReadSucceeds, AttachOver, At, Goto, cells, hash, request,
        TypeOK, Sound, Counting, Failing
  <2> QED BY <2>1, <2>2, <2>3, CountingKept DEF Sound
<1>3. Heap'
  <2>1. \A n \in Cells : Blank(n) => n # ip[t]
    BY BlankIsUnused DEF Sound
  <2> QED BY <2>1, ConstantsAssumption, SMTT(20)
    DEF ReadSucceeds, AttachOver, At, Goto, cells, hash, request,
        TypeOK, Sound, Heap, Blank
<1>4. Failing'
  BY <1>0, ConstantsAssumption, SMTT(10)
  DEF ReadSucceeds, AttachOver, At, Goto, cells, hash, request, TypeOK,
      Sound, Failing
<1>5. Flags'
  BY <1>0, ConstantsAssumption, SMTT(10)
  DEF ReadSucceeds, AttachOver, At, Goto, cells, hash, request, TypeOK,
      Sound, Flags
<1>6. Numbers'
  BY <1>0, ConstantsAssumption, SMTT(10)
  DEF ReadSucceeds, AttachOver, At, Goto, cells, hash, request, TypeOK,
      Sound, Numbers
<1>7. (stranded \/ Hashed)'
  BY <1>0, ConstantsAssumption, SMTT(10)
  DEF ReadSucceeds, AttachOver, At, Goto, cells, hash, request, TypeOK,
      Sound, Hashed
<1> QED BY <1>1, <1>2, <1>3, <1>4, <1>5, <1>6, <1>7 DEF Sound

LEMMA ReadFailsSound ==
  ASSUME TypeOK, Sound, NEW t \in Threads, ReadFails(t)
  PROVE  crashed' # "undefined" => Sound'
<1>0. \A n \in Cells : RefsIn(ip', dp', fh', n) = Refs(n)
  BY DEF Refs, ReadFails, AttachOver, request
<1>1. Threading'
  BY <1>0, ConstantsAssumption, SMTT(10)
  DEF ReadFails, AttachOver, At, Goto, cells, hash, request, TypeOK,
      Sound, Threading
<1>2. Counting'
  <2>1. Cardinality(table') = Cardinality(table) - 1
    BY ConstantsAssumption, FS_Subset, FS_RemoveElement DEF ReadFails, TypeOK
  <2>2. \A n \in Cells : count'[n] = Refs(n)'
    BY <1>0 DEF ReadFails, Refs, Sound, Counting
  <2> QED BY <2>1, <2>2 DEF ReadFails, TypeOK, Sound, Counting
<1>3. Heap'
  BY <1>0, ConstantsAssumption, SMTT(10)
  DEF ReadFails, AttachOver, At, Goto, cells, hash, request, TypeOK,
      Sound, Heap, Blank
<1>4. Failing'
  BY <1>0, ConstantsAssumption, SMTT(10)
  DEF ReadFails, AttachOver, At, Goto, cells, hash, request, TypeOK,
      Sound, Failing
<1>5. Flags'
  BY <1>0, ConstantsAssumption, SMTT(10)
  DEF ReadFails, AttachOver, At, Goto, cells, hash, request, TypeOK,
      Sound, Flags
<1>6. Numbers'
  BY <1>0, ConstantsAssumption, SMTT(10)
  DEF ReadFails, AttachOver, At, Goto, cells, hash, request, TypeOK,
      Sound, Numbers
<1>7. (stranded \/ Hashed)'
  <2> SUFFICES ASSUME ~ stranded, ip[t] \notin waiting PROVE Hashed'
    BY DEF ReadFails
  <2>1. Hashed /\ ip[t] \in attaching /\ ip[t] \notin initialized
    BY DEF ReadFails, At, Sound, Flags
  <2>2. \A u \in Threads : u # t /\ pc[u] # "failed" => ip[u] # ip[t]
    <3>1. TAKE u \in Threads
    <3>2. CASE pc[u] \in {"idle", "look", "alloc", "scan", "failed"}
      BY <2>1, <3>2 DEF ReadFails, At, Sound, Threading
    <3>3. CASE pc[u] \in {"wait", "got", "read", "use", "put"}
      BY <2>1, <3>3 DEF ReadFails, At, Sound, Flags
    <3> QED BY <3>2, <3>3 DEF TypeOK
  <2>3. /\ \A u \in Threads : dp[u] # ip[t]
        /\ \A f \in Files : fh[f] # ip[t]
    BY <2>1 DEF ReadFails, Sound, Flags
  <2>4. pc'[t] = "failed" /\ \A u \in Threads : u # t => pc'[u] = pc[u]
    BY DEF ReadFails, Goto, TypeOK
  <2> QED BY <2>1, <2>2, <2>3, <2>4 DEF ReadFails, request, Hashed
<1> QED BY <1>1, <1>2, <1>3, <1>4, <1>5, <1>6, <1>7 DEF Sound

LEMMA FreeFailedSound ==
  ASSUME TypeOK, Sound, NEW t \in Threads, FreeFailed(t)
  PROVE  crashed' # "undefined" => Sound'
<1> SUFFICES ASSUME crashed' # "undefined" PROVE Sound'
  OBVIOUS
<1>0. \A n \in Cells : RefsIn(ip', dp', fh', n) = Refs(n) - (IF n = ip[t] THEN 1 ELSE 0)
  <2>1. /\ SameBut(Threads, t, ip, ip') /\ ip'[t] = None
        /\ SameBut(Threads, t, dp, dp') /\ dp'[t] = dp[t]
        /\ fh' = fh /\ None \notin Cells /\ ip[t] \in Cells
    BY ConstantsAssumption
    DEF FreeFailed, Done, At, cells, hash, request, Sound, Threading, TypeOK, SameBut
  <2> QED BY <2>1, RefsOfThread, FewRefs
<1>1. Threading'
  BY <1>0, ConstantsAssumption, SMTT(10)
  DEF FreeFailed, Free, Done, OnlyRef, At, Goto, cells, hash, request,
      TypeOK, Sound, Threading
<1>2. Counting'
  <2>1. /\ table' = table /\ ihash_count' = ihash_count
        /\ \A n \in table : num'[n] = num[n]
    <3>1. ip[t] \notin table
      BY DEF FreeFailed, At, Sound, Failing
    <3> QED BY <3>1
      DEF FreeFailed, Free, Done, OnlyRef, At, Goto, cells, hash,
          request, TypeOK
  <2>2. \A n \in Cells : count'[n] = RefsIn(ip', dp', fh', n)
    <3>1. /\ count' = [count EXCEPT ![ip[t]] = 0]
          /\ count \in [Cells -> Nat] /\ \A n \in Cells : count[n] = Refs(n)
      BY Zenon DEF FreeFailed, Free, TypeOK, Sound, Counting
    <3>2. Refs(ip[t]) = 1
      BY DEF FreeFailed, OnlyRef
    <3>3. TAKE n \in Cells
    <3>4. RefsIn(ip', dp', fh', n) = Refs(n) - (IF n = ip[t] THEN 1 ELSE 0)
      BY <1>0
    <3> QED BY <3>1, <3>2, <3>4
  <2>3. \A n \in table : count'[n] > 0
    BY SMTT(10)
    DEF FreeFailed, Free, Done, OnlyRef, At, Goto, cells, hash,
        request, TypeOK, Sound, Counting, Failing
  <2> QED BY <2>1, <2>2, <2>3, CountingKept DEF Sound
<1>3. Heap'
  <2>1. /\ \A u \in Threads : ip[u] = ip[t] => u = t
        /\ \A u \in Threads : dp[u] # ip[t]
        /\ \A f \in Files : fh[f] # ip[t]
    BY FewRefs DEF FreeFailed, OnlyRef
  <2>2. ip[t] \in Cells /\ ip[t] \notin table /\ None \notin Cells
    BY ConstantsAssumption
    DEF FreeFailed, At, TypeOK, Sound, Threading, Failing
  <2>3. \A n \in Cells : Blank(n) => n # ip[t]
    BY BlankIsUnused DEF Sound
  <2> QED BY <2>1, <2>2, <2>3, ConstantsAssumption, SMTT(20)
    DEF FreeFailed, Free, Done, OnlyRef, At, Goto, cells, hash, request,
        TypeOK, Sound, Heap, Blank, Flags, Blank
<1>4. Failing'
  BY <1>0, ConstantsAssumption, SMTT(10)
  DEF FreeFailed, Free, Done, OnlyRef, At, Goto, cells, hash, request,
      TypeOK, Sound, Failing
<1>5. Flags'
  <2>1. /\ \A u \in Threads : ip[u] = ip[t] => u = t
        /\ \A u \in Threads : dp[u] # ip[t]
        /\ \A f \in Files : fh[f] # ip[t]
    BY FewRefs DEF FreeFailed, OnlyRef
  <2>2. ip[t] \in Cells /\ ip[t] \notin table /\ None \notin Cells
    BY ConstantsAssumption
    DEF FreeFailed, At, TypeOK, Sound, Threading, Failing
  <2>3. \A n \in Cells : Blank(n) => n # ip[t]
    BY BlankIsUnused DEF Sound
  <2> QED BY <2>1, <2>2, ConstantsAssumption, SMTT(20)
    DEF FreeFailed, Free, Done, OnlyRef, At, Goto, cells, hash, request,
        TypeOK, Sound, Flags
<1>6. Numbers'
  <2>1. /\ \A u \in Threads : ip[u] = ip[t] => u = t
        /\ \A u \in Threads : dp[u] # ip[t]
        /\ \A f \in Files : fh[f] # ip[t]
    BY FewRefs DEF FreeFailed, OnlyRef
  <2>2. ip[t] \in Cells /\ ip[t] \notin table /\ None \notin Cells
    BY ConstantsAssumption
    DEF FreeFailed, At, TypeOK, Sound, Threading, Failing
  <2>3. \A n \in Cells : Blank(n) => n # ip[t]
    BY BlankIsUnused DEF Sound
  <2> QED BY <2>1, <2>2, ConstantsAssumption, SMTT(20)
    DEF FreeFailed, Free, Done, OnlyRef, At, Goto, cells, hash, request,
        TypeOK, Sound, Numbers
<1>7. (stranded \/ Hashed)'
  BY <1>0, ConstantsAssumption, SMTT(10)
  DEF FreeFailed, Free, Done, OnlyRef, At, Goto, cells, hash, request,
      TypeOK, Sound, Hashed
<1> QED BY <1>1, <1>2, <1>3, <1>4, <1>5, <1>6, <1>7 DEF Sound

LEMMA UseAndPutSound ==
  ASSUME TypeOK, Sound, NEW t \in Threads, UseAndPut(t), At(t, "use")
  PROVE  crashed' # "undefined" => Sound'
<1>0. \A n \in Cells : RefsIn(ip', dp', fh', n) = Refs(n)
  BY DEF Refs, UseAndPut, request
<1>1. Threading'
  BY <1>0, ConstantsAssumption, SMTT(10)
  DEF UseAndPut, At, Goto, cells, hash, request, TypeOK, Sound,
      Threading
<1>2. Counting'
  <2>1. /\ table' = table /\ ihash_count' = ihash_count
        /\ \A n \in table : num'[n] = num[n]
    BY SMTT(10)
    DEF UseAndPut, At, Goto, cells, hash, request, TypeOK, Sound,
        Heap, Blank
  <2>2. \A n \in Cells : count'[n] = RefsIn(ip', dp', fh', n)
    BY <1>0
    DEF UseAndPut, At, Goto, cells, hash, request, TypeOK, Sound,
        Counting, Found
  <2>3. \A n \in table : count'[n] > 0
    BY SMTT(10)
    DEF UseAndPut, At, Goto, cells, hash, request, TypeOK, Sound,
        Counting, Failing
  <2> QED BY <2>1, <2>2, <2>3, CountingKept DEF Sound
<1>3. Heap'
  BY <1>0, ConstantsAssumption, SMTT(10)
  DEF UseAndPut, At, Goto, cells, hash, request, TypeOK, Sound, Heap,
      Blank
<1>4. Failing'
  BY <1>0, ConstantsAssumption, SMTT(10)
  DEF UseAndPut, At, Goto, cells, hash, request, TypeOK, Sound, Failing
<1>5. Flags'
  BY <1>0, ConstantsAssumption, SMTT(10)
  DEF UseAndPut, At, Goto, cells, hash, request, TypeOK, Sound, Flags
<1>6. Numbers'
  BY <1>0, ConstantsAssumption, SMTT(10)
  DEF UseAndPut, At, Goto, cells, hash, request, TypeOK, Sound, Numbers
<1>7. (stranded \/ Hashed)'
  BY <1>0, ConstantsAssumption, SMTT(10)
  DEF UseAndPut, At, Goto, cells, hash, request, TypeOK, Sound, Hashed
<1> QED BY <1>1, <1>2, <1>3, <1>4, <1>5, <1>6, <1>7 DEF Sound

LEMMA UseDirectorySound ==
  ASSUME TypeOK, Sound, NEW t \in Threads, UseDirectory(t), At(t, "use")
  PROVE  crashed' # "undefined" => Sound'
<1>0. \A n \in Cells : RefsIn(ip', dp', fh', n) = Refs(n)
  <2>1. /\ SameBut(Threads, t, ip, ip') /\ ip'[t] = None
        /\ SameBut(Threads, t, dp, dp') /\ dp'[t] = ip[t]
        /\ fh' = fh /\ None \notin Cells /\ dp[t] = None /\ ip[t] \in Cells
    BY ConstantsAssumption
    DEF UseDirectory, At, cells, hash, request, Sound, Threading, TypeOK, SameBut
  <2> QED BY <2>1, RefsOfThread, FewRefs
<1>1. Threading'
  BY <1>0, ConstantsAssumption, SMTT(10)
  DEF UseDirectory, At, Goto, cells, hash, request, TypeOK, Sound,
      Threading
<1>2. Counting'
  <2>1. /\ table' = table /\ ihash_count' = ihash_count
        /\ \A n \in table : num'[n] = num[n]
    BY SMTT(10)
    DEF UseDirectory, At, Goto, cells, hash, request, TypeOK, Sound,
        Heap, Blank
  <2>2. \A n \in Cells : count'[n] = RefsIn(ip', dp', fh', n)
    BY <1>0
    DEF UseDirectory, At, Goto, cells, hash, request, TypeOK, Sound,
        Counting, Found
  <2>3. \A n \in table : count'[n] > 0
    BY SMTT(10)
    DEF UseDirectory, At, Goto, cells, hash, request, TypeOK, Sound,
        Counting, Failing
  <2> QED BY <2>1, <2>2, <2>3, CountingKept DEF Sound
<1>3. Heap'
  BY <1>0, ConstantsAssumption, SMTT(10)
  DEF UseDirectory, At, Goto, cells, hash, request, TypeOK, Sound, Heap,
      Blank
<1>4. Failing'
  BY <1>0, ConstantsAssumption, SMTT(10)
  DEF UseDirectory, At, Goto, cells, hash, request, TypeOK, Sound,
      Failing
<1>5. Flags'
  BY <1>0, ConstantsAssumption, SMTT(10)
  DEF UseDirectory, At, Goto, cells, hash, request, TypeOK, Sound, Flags
<1>6. Numbers'
  BY <1>0, ConstantsAssumption, SMTT(10)
  DEF UseDirectory, At, Goto, cells, hash, request, TypeOK, Sound,
      Numbers
<1>7. (stranded \/ Hashed)'
  BY <1>0, ConstantsAssumption, SMTT(10)
  DEF UseDirectory, At, Goto, cells, hash, request, TypeOK, Sound,
      Hashed
<1> QED BY <1>1, <1>2, <1>3, <1>4, <1>5, <1>6, <1>7 DEF Sound

LEMMA UseOpenSound ==
  ASSUME TypeOK, Sound, NEW t \in Threads, UseOpen(t), At(t, "use")
  PROVE  crashed' # "undefined" => Sound'
<1>0. \A n \in Cells : RefsIn(ip', dp', fh', n) = Refs(n)
  <2>1. PICK f \in Files : fh[f] = None /\ fh' = [fh EXCEPT ![f] = ip[t]]
    BY DEF UseOpen
  <2>2. /\ SameBut(Threads, t, ip, ip') /\ ip'[t] = None
        /\ SameBut(Files, f, fh, fh') /\ fh'[f] = ip[t]
        /\ dp' = dp /\ None \notin Cells
    BY <2>1, ConstantsAssumption DEF UseOpen, Done, TypeOK, SameBut
  <2>3. TAKE n \in Cells
  <2>4. RefsIn(ip', dp', fh', n)
          = Refs(n) - (IF ip[t] = n THEN 1 ELSE 0)
            + (IF ip'[t] = n THEN 1 ELSE 0)
            - (IF fh[f] = n THEN 1 ELSE 0)
            + (IF fh'[f] = n THEN 1 ELSE 0)
    BY <2>2, RefsOfFile
  <2>5. Refs(n) \in Nat
    BY FewRefs
  <2> QED BY <2>1, <2>2, <2>4, <2>5
<1>1. Threading'
  BY <1>0, ConstantsAssumption, SMTT(10)
  DEF UseOpen, Done, At, Goto, cells, hash, request, TypeOK, Sound,
      Threading
<1>2. Counting'
  <2>1. /\ table' = table /\ ihash_count' = ihash_count
        /\ \A n \in table : num'[n] = num[n]
    BY SMTT(10)
    DEF UseOpen, Done, At, Goto, cells, hash, request, TypeOK, Sound,
        Heap, Blank
  <2>2. \A n \in Cells : count'[n] = RefsIn(ip', dp', fh', n)
    BY <1>0
    DEF UseOpen, Done, At, Goto, cells, hash, request, TypeOK, Sound,
        Counting, Found
  <2>3. \A n \in table : count'[n] > 0
    BY SMTT(10)
    DEF UseOpen, Done, At, Goto, cells, hash, request, TypeOK, Sound,
        Counting, Failing
  <2> QED BY <2>1, <2>2, <2>3, CountingKept DEF Sound
<1>3. Heap'
  BY <1>0, ConstantsAssumption, SMTT(10)
  DEF UseOpen, Done, At, Goto, cells, hash, request, TypeOK, Sound,
      Heap, Blank
<1>4. Failing'
  BY <1>0, ConstantsAssumption, SMTT(10)
  DEF UseOpen, Done, At, Goto, cells, hash, request, TypeOK, Sound,
      Failing
<1>5. Flags'
  BY <1>0, ConstantsAssumption, SMTT(10)
  DEF UseOpen, Done, At, Goto, cells, hash, request, TypeOK, Sound,
      Flags
<1>6. Numbers'
  BY <1>0, ConstantsAssumption, SMTT(10)
  DEF UseOpen, Done, At, Goto, cells, hash, request, TypeOK, Sound,
      Numbers
<1>7. (stranded \/ Hashed)'
  BY <1>0, ConstantsAssumption, SMTT(10)
  DEF UseOpen, Done, At, Goto, cells, hash, request, TypeOK, Sound,
      Hashed
<1> QED BY <1>1, <1>2, <1>3, <1>4, <1>5, <1>6, <1>7 DEF Sound

LEMMA ScanEntrySound ==
  ASSUME TypeOK, Sound, NEW t \in Threads, ScanEntry(t)
  PROVE  crashed' # "undefined" => Sound'
<1>0. \A n \in Cells : RefsIn(ip', dp', fh', n) = Refs(n)
  BY DEF Refs, ScanEntry, request
<1>1. Threading'
  BY <1>0, ConstantsAssumption, SMTT(10)
  DEF ScanEntry, At, Goto, cells, hash, request, TypeOK, Sound,
      Threading
<1>2. Counting'
  <2>1. /\ table' = table /\ ihash_count' = ihash_count
        /\ \A n \in table : num'[n] = num[n]
    BY SMTT(10)
    DEF ScanEntry, At, Goto, cells, hash, request, TypeOK, Sound,
        Heap, Blank
  <2>2. \A n \in Cells : count'[n] = RefsIn(ip', dp', fh', n)
    BY <1>0
    DEF ScanEntry, At, Goto, cells, hash, request, TypeOK, Sound,
        Counting, Found
  <2>3. \A n \in table : count'[n] > 0
    BY SMTT(10)
    DEF ScanEntry, At, Goto, cells, hash, request, TypeOK, Sound,
        Counting, Failing
  <2> QED BY <2>1, <2>2, <2>3, CountingKept DEF Sound
<1>3. Heap'
  BY ConstantsAssumption, SMTT(20)
  DEF ScanEntry, At, Goto, cells, hash, request, TypeOK, Sound, Heap,
      Blank, Threading
<1>4. Failing'
  BY <1>0, ConstantsAssumption, SMTT(10)
  DEF ScanEntry, At, Goto, cells, hash, request, TypeOK, Sound, Failing
<1>5. Flags'
  BY <1>0, ConstantsAssumption, SMTT(10)
  DEF ScanEntry, At, Goto, cells, hash, request, TypeOK, Sound, Flags
<1>6. Numbers'
  BY <1>0, ConstantsAssumption, SMTT(10)
  DEF ScanEntry, At, Goto, cells, hash, request, TypeOK, Sound, Numbers
<1>7. (stranded \/ Hashed)'
  BY <1>0, ConstantsAssumption, SMTT(10)
  DEF ScanEntry, At, Goto, cells, hash, request, TypeOK, Sound, Hashed
<1> QED BY <1>1, <1>2, <1>3, <1>4, <1>5, <1>6, <1>7 DEF Sound

LEMMA ScanEndsSound ==
  ASSUME TypeOK, Sound, NEW t \in Threads, ScanEnds(t)
  PROVE  crashed' # "undefined" => Sound'
<1>0. \A n \in Cells : RefsIn(ip', dp', fh', n) = Refs(n)
  <2>1. /\ SameBut(Threads, t, ip, ip') /\ ip'[t] = dp[t]
        /\ SameBut(Threads, t, dp, dp') /\ dp'[t] = None
        /\ fh' = fh /\ None \notin Cells /\ ip[t] = None /\ dp[t] \in Cells
    BY ConstantsAssumption
    DEF ScanEnds, At, cells, hash, request, Sound, Threading, TypeOK, SameBut
  <2> QED BY <2>1, RefsOfThread, FewRefs
<1>1. Threading'
  BY <1>0, ConstantsAssumption, SMTT(10)
  DEF ScanEnds, At, Goto, cells, hash, request, TypeOK, Sound, Threading
<1>2. Counting'
  <2>1. /\ table' = table /\ ihash_count' = ihash_count
        /\ \A n \in table : num'[n] = num[n]
    BY SMTT(10)
    DEF ScanEnds, At, Goto, cells, hash, request, TypeOK, Sound, Heap,
        Blank
  <2>2. \A n \in Cells : count'[n] = RefsIn(ip', dp', fh', n)
    BY <1>0
    DEF ScanEnds, At, Goto, cells, hash, request, TypeOK, Sound,
        Counting, Found
  <2>3. \A n \in table : count'[n] > 0
    BY SMTT(10)
    DEF ScanEnds, At, Goto, cells, hash, request, TypeOK, Sound,
        Counting, Failing
  <2> QED BY <2>1, <2>2, <2>3, CountingKept DEF Sound
<1>3. Heap'
  BY <1>0, ConstantsAssumption, SMTT(10)
  DEF ScanEnds, At, Goto, cells, hash, request, TypeOK, Sound, Heap,
      Blank
<1>4. Failing'
  BY <1>0, ConstantsAssumption, SMTT(10)
  DEF ScanEnds, At, Goto, cells, hash, request, TypeOK, Sound, Failing
<1>5. Flags'
  BY <1>0, ConstantsAssumption, SMTT(10)
  DEF ScanEnds, At, Goto, cells, hash, request, TypeOK, Sound, Flags
<1>6. Numbers'
  BY <1>0, ConstantsAssumption, SMTT(10)
  DEF ScanEnds, At, Goto, cells, hash, request, TypeOK, Sound, Numbers
<1>7. (stranded \/ Hashed)'
  BY <1>0, ConstantsAssumption, SMTT(10)
  DEF ScanEnds, At, Goto, cells, hash, request, TypeOK, Sound, Hashed
<1> QED BY <1>1, <1>2, <1>3, <1>4, <1>5, <1>6, <1>7 DEF Sound

LEMMA PutSound ==
  ASSUME TypeOK, Sound, NEW t \in Threads, Put(t)
  PROVE  crashed' # "undefined" => Sound'
<1>0. \A n \in Cells : RefsIn(ip', dp', fh', n) = Refs(n) - (IF n = ip[t] THEN 1 ELSE 0)
  <2>1. /\ SameBut(Threads, t, ip, ip') /\ ip'[t] = None
        /\ SameBut(Threads, t, dp, dp') /\ dp'[t] = dp[t]
        /\ fh' = fh /\ None \notin Cells /\ ip[t] \in Cells
    BY ConstantsAssumption
    DEF Put, Done, At, cells, hash, request, Sound, Threading, TypeOK, SameBut
  <2> QED BY <2>1, RefsOfThread, FewRefs
<1>1. Threading'
  BY <1>0, ConstantsAssumption, SMTT(10)
  DEF Put, Done, At, Goto, cells, hash, request, TypeOK, Sound,
      Threading
<1>2. Counting'
  <2>1. /\ table' = table /\ ihash_count' = ihash_count
        /\ \A n \in table : num'[n] = num[n]
    BY SMTT(10)
    DEF Put, Done, At, Goto, cells, hash, request, TypeOK, Sound,
        Heap, Blank
  <2>2. \A n \in Cells : count'[n] = RefsIn(ip', dp', fh', n)
    <3>1. /\ count' = [count EXCEPT ![ip[t]] = @ - 1]
          /\ count \in [Cells -> Nat] /\ \A n \in Cells : count[n] = Refs(n)
      BY Zenon DEF Put, TypeOK, Sound, Counting
    <3>2. TAKE n \in Cells
    <3>3. /\ RefsIn(ip', dp', fh', n) = Refs(n) - (IF n = ip[t] THEN 1 ELSE 0)
          /\ count[n] \in Nat
      BY <1>0, <3>1
    <3>4. count'[n] = count[n] - (IF n = ip[t] THEN 1 ELSE 0)
      BY <3>1
    <3> QED BY <3>1, <3>3, <3>4
  <2>3. \A n \in table : count'[n] > 0
    BY SMTT(10)
    DEF Put, Done, At, Goto, cells, hash, request, TypeOK, Sound,
        Counting, Failing
  <2> QED BY <2>1, <2>2, <2>3, CountingKept DEF Sound
<1>3. Heap'
  BY <1>0, ConstantsAssumption, SMTT(10)
  DEF Put, Done, At, Goto, cells, hash, request, TypeOK, Sound, Heap,
      Blank
<1>4. Failing'
  BY <1>0, ConstantsAssumption, SMTT(10)
  DEF Put, Done, At, Goto, cells, hash, request, TypeOK, Sound, Failing
<1>5. Flags'
  BY <1>0, ConstantsAssumption, SMTT(10)
  DEF Put, Done, At, Goto, cells, hash, request, TypeOK, Sound, Flags
<1>6. Numbers'
  BY <1>0, ConstantsAssumption, SMTT(10)
  DEF Put, Done, At, Goto, cells, hash, request, TypeOK, Sound, Numbers
<1>7. (stranded \/ Hashed)'
  BY <1>0, ConstantsAssumption, SMTT(10)
  DEF Put, Done, At, Goto, cells, hash, request, TypeOK, Sound, Hashed
<1> QED BY <1>1, <1>2, <1>3, <1>4, <1>5, <1>6, <1>7 DEF Sound

LEMMA LastPutSound ==
  ASSUME TypeOK, Sound, NEW t \in Threads, LastPut(t)
  PROVE  crashed' # "undefined" => Sound'
<1> SUFFICES ASSUME crashed' # "undefined" PROVE Sound'
  OBVIOUS
<1>0. \A n \in Cells : RefsIn(ip', dp', fh', n) = Refs(n) - (IF n = ip[t] THEN 1 ELSE 0)
  <2>1. /\ SameBut(Threads, t, ip, ip') /\ ip'[t] = None
        /\ SameBut(Threads, t, dp, dp') /\ dp'[t] = dp[t]
        /\ fh' = fh /\ None \notin Cells /\ ip[t] \in Cells
    BY ConstantsAssumption
    DEF LastPut, Done, At, cells, hash, request, Sound, Threading, TypeOK, SameBut
  <2> QED BY <2>1, RefsOfThread, FewRefs
<1>1. Threading'
  BY <1>0, ConstantsAssumption, SMTT(10)
  DEF LastPut, Free, Done, OnlyRef, At, Goto, cells, hash, request,
      TypeOK, Sound, Threading
<1>2. Counting'
  <2>1. /\ ip[t] \in table /\ ip[t] \in Cells /\ Refs(ip[t]) = 1
        /\ table' = table \ {ip[t]} /\ ihash_count' = ihash_count - 1
        /\ num' = [num EXCEPT ![ip[t]] = None]
        /\ count' = [count EXCEPT ![ip[t]] = 0]
    BY DEF LastPut, Free, OnlyRef, TypeOK
  <2>2. Cardinality(table') = Cardinality(table) - 1
    BY <2>1, ConstantsAssumption, FS_Subset, FS_RemoveElement DEF TypeOK
  <2>3. \A n \in Cells : count'[n] = RefsIn(ip', dp', fh', n)
    <3>1. /\ count \in [Cells -> Nat] /\ \A n \in Cells : count[n] = Refs(n)
      BY DEF TypeOK, Sound, Counting
    <3>2. TAKE n \in Cells
    <3>3. RefsIn(ip', dp', fh', n) = Refs(n) - (IF n = ip[t] THEN 1 ELSE 0)
      BY <1>0
    <3> QED BY <2>1, <3>1, <3>3
  <2>4. \A n \in Cells : count'[n] = Refs(n)'
    BY <2>3 DEF Refs
  <2>5. /\ \A n \in table' : count'[n] > 0
        /\ \A m, n \in table' : num'[m] = num'[n] => m = n
    BY <2>1 DEF TypeOK, Sound, Counting
  <2> QED BY <2>1, <2>2, <2>4, <2>5 DEF Sound, Counting
<1>3. Heap'
  <2>1. /\ \A u \in Threads : ip[u] = ip[t] => u = t
        /\ \A u \in Threads : dp[u] # ip[t]
        /\ \A f \in Files : fh[f] # ip[t]
    BY FewRefs DEF LastPut, OnlyRef
  <2>2. ip[t] \in Cells /\ ip[t] \in table /\ None \notin Cells
    BY ConstantsAssumption DEF LastPut, TypeOK
  <2>3. \A n \in Cells : Blank(n) => n # ip[t]
    BY BlankIsUnused DEF Sound
  <2> QED BY <2>1, <2>2, <2>3, ConstantsAssumption, SMTT(20)
    DEF LastPut, Free, Done, OnlyRef, At, Goto, cells, hash, request,
        TypeOK, Sound, Heap, Blank, Flags, Blank
<1>4. Failing'
  BY <1>0, ConstantsAssumption, SMTT(10)
  DEF LastPut, Free, Done, OnlyRef, At, Goto, cells, hash, request,
      TypeOK, Sound, Failing
<1>5. Flags'
  BY <1>0, ConstantsAssumption, SMTT(10)
  DEF LastPut, Free, Done, OnlyRef, At, Goto, cells, hash, request,
      TypeOK, Sound, Flags
<1>6. Numbers'
  <2>1. /\ \A u \in Threads : ip[u] = ip[t] => u = t
        /\ \A u \in Threads : dp[u] # ip[t]
        /\ \A f \in Files : fh[f] # ip[t]
    BY FewRefs DEF LastPut, OnlyRef
  <2>2. ip[t] \in Cells /\ ip[t] \in table /\ None \notin Cells
    BY ConstantsAssumption DEF LastPut, TypeOK
  <2>3. \A n \in Cells : Blank(n) => n # ip[t]
    BY BlankIsUnused DEF Sound
  <2> QED BY <2>1, <2>2, ConstantsAssumption, SMTT(20)
    DEF LastPut, Free, Done, OnlyRef, At, Goto, cells, hash, request,
        TypeOK, Sound, Numbers
<1>7. (stranded \/ Hashed)'
  <2>1. /\ \A u \in Threads : ip[u] = ip[t] => u = t
        /\ \A u \in Threads : dp[u] # ip[t]
        /\ \A f \in Files : fh[f] # ip[t]
    BY FewRefs DEF LastPut, OnlyRef
  <2>2. ip[t] \in Cells /\ ip[t] \in table /\ None \notin Cells
    BY ConstantsAssumption DEF LastPut, TypeOK
  <2>3. \A n \in Cells : Blank(n) => n # ip[t]
    BY BlankIsUnused DEF Sound
  <2> QED BY <2>1, <2>2, ConstantsAssumption, SMTT(20)
    DEF LastPut, Free, Done, OnlyRef, At, Goto, cells, hash, request,
        TypeOK, Sound, Hashed
<1> QED BY <1>1, <1>2, <1>3, <1>4, <1>5, <1>6, <1>7 DEF Sound

-----------------------------------------------------------------------------
(* The daemon is never undefined but for a read that failed under a waiter.*)

(* A cell that one thread refers to, and nobody else.                      *)
LEMMA OneRef ==
  ASSUME NEW t \in Threads, NEW n, ip[t] = n,
         \A u \in Threads : ip[u] = n => u = t,
         \A u \in Threads : dp[u] # n, \A f \in Files : fh[f] # n
  PROVE  Refs(n) = 1
<1>1. /\ Holders(Threads, ip, n) = {t}
      /\ Holders(Threads, dp, n) = {} /\ Holders(Files, fh, n) = {}
  BY DEF Holders
<1>2. Cardinality({t}) = 1 /\ Cardinality({}) = 0
  BY FS_Singleton, FS_EmptySet
<1> QED BY <1>1, <1>2 DEF Refs, RefsIn

(* The last put of a cell finds it in the table.                           *)
LEMMA LastPutIsSafe ==
  ASSUME TypeOK, Sound, NEW t \in Threads, LastPut(t)
  PROVE  ip[t] \in table /\ OnlyRef(t) /\ crashed' = "no"
<1>1. /\ ip[t] \in Cells /\ pc[t] = "put" /\ Refs(ip[t]) = 1
      /\ ip[t] # None /\ None \notin Cells
  BY ConstantsAssumption
  DEF LastPut, At, TypeOK, Sound, Threading, Counting
<1>2. SUFFICES ASSUME ip[t] \notin table PROVE FALSE
  BY <1>1 DEF LastPut, OnlyRef
<1>3. \A n \in Cells : Blank(n) => n # ip[t]
  BY BlankIsUnused DEF Sound
<1>4. num[ip[t]] # None /\ \A u \in Threads : spare[u] # ip[t]
  BY <1>1, <1>3 DEF Sound, Heap, TypeOK
<1>5. PICK u \in Threads : ip[u] = ip[t] /\ pc[u] = "failed"
  BY <1>1, <1>2, <1>4 DEF Sound, Failing
<1> QED BY <1>1, <1>5, FewRefs

LEMMA FreeFailedIsSafe ==
  ASSUME TypeOK, Sound, ~ stranded, NEW t \in Threads, FreeFailed(t)
  PROVE  crashed' # "undefined"
<1>1. /\ Hashed /\ ip[t] \notin table /\ ip[t] # None /\ pc[t] = "failed"
      /\ \A u \in Threads : pc[u] = "failed" /\ ip[u] = ip[t] => u = t
  BY DEF FreeFailed, At, Sound, Threading, Failing
<1>2. OnlyRef(t)
  BY <1>1, OneRef DEF Hashed, OnlyRef
<1> QED BY <1>2 DEF FreeFailed

LEMMA ReadFailsAgainIsSafe ==
  ASSUME Sound, ~ stranded, NEW t \in Threads
  PROVE  ~ ReadFailsAgain(t)
BY DEF ReadFailsAgain, At, Sound, Hashed, Threading

-----------------------------------------------------------------------------
(* The steps together.                                                     *)

(* What a thread does, one action each.                                    *)
Step(t) ==
  \/ Start(t) \/ Release(t) \/ AllocFails(t)
  \/ LookMiss(t) \/ Alloc(t) \/ LookInsert(t) \/ LookWait(t) \/ LookTake(t)
  \/ Wake(t) \/ Got(t) \/ ReadSucceeds(t) \/ ReadFails(t) \/ ReadFailsAgain(t)
  \/ FreeFailed(t)
  \/ At(t, "use") /\ UseAndPut(t)
  \/ At(t, "use") /\ UseDirectory(t)
  \/ At(t, "use") /\ UseOpen(t)
  \/ ScanEntry(t) \/ ScanEnds(t) \/ Put(t) \/ LastPut(t)

LEMMA StepOfNext ==
  ASSUME Next
  PROVE  Ended \/ \E t \in Threads : Step(t) /\ crashed = "no"
<1>1. SUFFICES ASSUME NEW t \in Threads,
                      Start(t) \/ Release(t) \/ AllocFails(t) \/ Advance(t)
               PROVE  Step(t) /\ crashed = "no"
  BY DEF Next
<1>2. Step(t)
  BY <1>1 DEF Advance, Use, Step
<1> QED
  BY <1>2 DEF Step, Start, Release, AllocFails, LookMiss, Alloc, LookInsert,
     LookWait, LookTake, Wake, Got, ReadSucceeds, ReadFails, ReadFailsAgain,
     FreeFailed, ScanEntry, ScanEnds, Put, LastPut, At

LEMMA TypeStep ==
  ASSUME TypeOK, Sound, NEW t \in Threads, Step(t)
  PROVE  TypeOK'
<1> USE ConstantsAssumption DEF TypeOK, At, Goto, cells, hash, request
<1>1. CASE Start(t)
  BY <1>1 DEF Start
<1>2. CASE Release(t)
  BY <1>2 DEF Release
<1>3. CASE LookMiss(t)
  BY <1>3 DEF LookMiss
<1>4. CASE Alloc(t)
  BY <1>4 DEF Alloc
<1>5. CASE LookInsert(t)
  BY <1>5 DEF LookInsert, Found
<1>6. CASE LookWait(t)
  BY <1>6 DEF LookWait, Found
<1>7. CASE LookTake(t)
  BY <1>7 DEF LookTake, Found, Return
<1>8. CASE Wake(t)
  BY <1>8 DEF Wake, Return
<1>9. CASE Got(t)
  BY <1>9 DEF Got
<1>10. CASE ReadSucceeds(t)
  <2>1. ip[t] \in Cells
    BY <1>10 DEF ReadSucceeds, Sound, Threading
  <2> QED BY <1>10, <2>1 DEF ReadSucceeds, AttachOver
<1>11. CASE ReadFails(t)
  <2>1. Cardinality(table') = ihash_count' /\ crashed' # "undefined"
    BY <1>11, ReadFailsSound DEF ReadFails, Sound, Counting
  <2>2. ihash_count' \in Nat
    BY <1>11, <2>1, FS_Subset, FS_CardinalityType DEF ReadFails
  <2> QED BY <1>11, <2>2 DEF ReadFails, AttachOver
<1>12. CASE FreeFailed(t)
  BY <1>12 DEF FreeFailed, Free, Done
<1>13. CASE At(t, "use") /\ UseAndPut(t)
  BY <1>13 DEF UseAndPut
<1>14. CASE At(t, "use") /\ UseDirectory(t)
  <2>1. \A s \in SUBSET Entries[ino[t]] : ino[t] \in Dirs => s \subseteq Inodes
    OBVIOUS
  <2> QED BY <1>14, <2>1 DEF UseDirectory
<1>15. CASE At(t, "use") /\ UseOpen(t)
  BY <1>15 DEF UseOpen, Done
<1>16. CASE ScanEntry(t)
  BY <1>16 DEF ScanEntry
<1>17. CASE ScanEnds(t)
  BY <1>17 DEF ScanEnds
<1>18. CASE Put(t)
  <2>1. ip[t] \in Cells
    BY <1>18 DEF Put, Sound, Threading
  <2> QED BY <1>18, <2>1 DEF Put, Done
<1>19. CASE LastPut(t)
  <2>1. ihash_count' \in Nat
    BY <1>19, LastPutSound, FS_Subset, FS_CardinalityType, LastPutIsSafe
    DEF LastPut, Sound, Counting
  <2> QED BY <1>19, <2>1 DEF LastPut, Free, Done
<1>20. CASE AllocFails(t)
  BY <1>20 DEF AllocFails, Crash
<1>21. CASE ReadFailsAgain(t)
  BY <1>21 DEF ReadFailsAgain, Crash
<1> QED BY <1>1, <1>2, <1>3, <1>4, <1>5, <1>6, <1>7, <1>8, <1>9, <1>10, <1>11, <1>12, <1>13, <1>14, <1>15, <1>16, <1>17, <1>18, <1>19, <1>20, <1>21
  DEF Step

LEMMA SafeStep ==
  ASSUME TypeOK, Sound, UndefinedOnlyIfStranded, NEW t \in Threads, Step(t),
         crashed = "no"
  PROVE  UndefinedOnlyIfStranded'
<1>1. SUFFICES ASSUME crashed' = "undefined", ~ stranded'
               PROVE  FALSE
  BY DEF UndefinedOnlyIfStranded
<1>2. ~ stranded /\ ~ ReadFailsAgain(t) /\ ~ LastPut(t) /\ ~ FreeFailed(t)
  <2>1. ~ stranded
    BY <1>1 DEF Step, Start, Release, AllocFails, Crash, LookMiss, Alloc,
    LookInsert, LookWait, LookTake, Wake, Got, ReadSucceeds, ReadFails,
    ReadFailsAgain, FreeFailed, UseAndPut, UseDirectory, UseOpen, ScanEntry,
    ScanEnds, Put, LastPut
  <2> QED BY <1>1, <2>1, ReadFailsAgainIsSafe, LastPutIsSafe, FreeFailedIsSafe
<1> QED BY <1>1, <1>2
  DEF Step, Start, Release, AllocFails, Crash, LookMiss, Alloc,
    LookInsert, LookWait, LookTake, Wake, Got, ReadSucceeds, ReadFails,
    ReadFailsAgain, FreeFailed, UseAndPut, UseDirectory, UseOpen, ScanEntry,
    ScanEnds, Put, LastPut

LEMMA SoundStep ==
  ASSUME TypeOK, Sound, NEW t \in Threads, Step(t), crashed' # "undefined"
  PROVE  Sound'
<1>1. CASE AllocFails(t)
  BY <1>1 DEF AllocFails, Crash, cells, hash, request, Sound, Threading,
     Counting, Refs, Heap, Blank, Failing, Flags, Numbers, Hashed
<1>2. CASE ReadFailsAgain(t)
  BY <1>2 DEF ReadFailsAgain, Crash
<1> QED
  BY <1>1, <1>2, StartSound, ReleaseSound, LookMissSound, AllocSound, LookInsertSound, LookWaitSound, LookTakeSound, WakeSound, GotSound, ReadSucceedsSound, ReadFailsSound, FreeFailedSound, UseAndPutSound, UseDirectorySound, UseOpenSound, ScanEntrySound, ScanEndsSound, PutSound, LastPutSound
  DEF Step

(* The invariant holds at the start and every step keeps it.               *)
THEOREM InvariantInit == Init => IInv
<1> SUFFICES ASSUME Init PROVE IInv
  OBVIOUS
<1>1. TypeOK
  BY ConstantsAssumption DEF Init, TypeOK
<1>2. \A n \in Cells : Refs(n) = 0
  <2>1. /\ \A n \in Cells : Holders(Threads, ip, n) = {}
        /\ \A n \in Cells : Holders(Threads, dp, n) = {}
        /\ \A n \in Cells : Holders(Files, fh, n) = {}
    BY ConstantsAssumption DEF Init, Holders
  <2> QED BY <2>1, FS_EmptySet DEF Refs, RefsIn
<1>3. Counting
  BY <1>2, FS_EmptySet DEF Init, Counting
<1>4. Threading /\ Heap /\ Failing /\ Flags /\ Numbers /\ Hashed
  BY ConstantsAssumption DEF Init, Threading, Heap, Blank, Failing, Flags,
     Numbers, Hashed
<1> QED BY <1>1, <1>3, <1>4 DEF IInv, Sound, UndefinedOnlyIfStranded, Init

THEOREM InvariantStep == IInv /\ [Next]_vars => IInv'
<1> SUFFICES ASSUME IInv, [Next]_vars PROVE IInv'
  OBVIOUS
<1>1. CASE UNCHANGED vars
  BY <1>1 DEF vars, cells, hash, request, IInv, TypeOK,
     UndefinedOnlyIfStranded, Sound, Threading, Counting, Refs, Heap, Blank,
     Failing, Flags, Numbers, Hashed
<1>2. ASSUME NEW t \in Threads, Step(t), crashed = "no" PROVE IInv'
  <2>1. TypeOK /\ Sound /\ UndefinedOnlyIfStranded
    BY <1>2 DEF IInv
  <2>2. TypeOK'
    BY <1>2, <2>1, TypeStep
  <2>3. UndefinedOnlyIfStranded'
    BY <1>2, <2>1, SafeStep
  <2>4. crashed' # "undefined" => Sound'
    BY <1>2, <2>1, SoundStep
  <2> QED BY <2>2, <2>3, <2>4 DEF IInv
<1> QED BY <1>1, <1>2, StepOfNext DEF Ended

THEOREM InvariantHolds == Spec => []IInv
BY InvariantInit, InvariantStep, PTL DEF Spec

(* Every variable keeps its type.                                          *)
THEOREM TypesHold == Spec => []TypeOK
<1>1. IInv => TypeOK
  BY DEF IInv
<1> QED BY <1>1, InvariantHolds, PTL

(* The table holds each inode once and counts exactly who refers to it; no *)
(* cell leaks.                                                             *)
THEOREM CellsAreAccountedFor == Spec => []CellsAccountedFor
<1>1. IInv => CellsAccountedFor
  BY DEF IInv, Sound, Counting, Failing, TypeOK, CellsAccountedFor
<1> QED BY <1>1, InvariantHolds, PTL

(* A thread gets the inode it asks for, and one thread at a time reads it. *)
THEOREM InodesAreRight == Spec => []RightInode
<1>1. IInv => RightInode
  <2> SUFFICES ASSUME IInv, crashed # "undefined" PROVE RightInode
    BY DEF RightInode
  <2>1. \A t \in Threads : pc[t] \in {"wait", "got", "read", "use"} =>
          num[ip[t]] = ino[t]
    BY DEF IInv, Sound, Numbers
  <2>2. ASSUME ~ stranded, NEW t \in Threads, NEW u \in Threads,
               pc[t] = "read", ip[u] = ip[t], pc[u] # "wait"
        PROVE  u = t
    <3>1. ip[t] \in attaching /\ ip[t] \in table /\ ip[t] # None
      BY <2>2 DEF IInv, Sound, Threading, Hashed, Flags
    <3>2. pc[u] \in {"got", "read", "failed", "use", "put"}
      BY <2>2, <3>1 DEF IInv, TypeOK, Sound, Threading
    <3>3. pc[u] \in {"got", "read"}
      BY <2>2, <3>1, <3>2 DEF IInv, Sound, Failing, Flags
    <3> QED BY <2>2, <3>1, <3>3 DEF IInv, Sound, Flags
  <2> QED BY <2>1, <2>2 DEF RightInode
<1> QED BY <1>1, InvariantHolds, PTL

(* Memory is misused only after a read has failed under a waiter.          *)
THEOREM UndefinedNeedsStranding == Spec => []UndefinedOnlyIfStranded
<1>1. IInv => UndefinedOnlyIfStranded
  BY DEF IInv
<1> QED BY <1>1, InvariantHolds, PTL
=============================================================================
