------------------------- MODULE NodeLockingProofs -------------------------
(***************************************************************************)
(* The theorems of NodeLocking.  For any number of threads and nodes and   *)
(* any directories and links: an operation locks the nodes it was given,   *)
(* each once, however fusefs_lockfour merges them, and unlocks each of     *)
(* them once.  If nothing is renamed to another directory and no file is   *)
(* in two, no threads wait for each other in a circle.                     *)
(*                                                                         *)
(* The second part rests on a relation Before that every list of locks     *)
(* follows and that has no circle: parents come before their children, and *)
(* of two files, or two directories of one directory, the smaller address  *)
(* first.  With hard links or renames across directories there is no such  *)
(* relation, and TLC finds circles.                                        *)
(***************************************************************************)
EXTENDS NodeLocking, FiniteSetTheorems, SequenceTheorems,
        WellFoundedInduction, TLAPS

-----------------------------------------------------------------------------
(* The inductive invariant.                                                *)

Places == {"idle", "lock", "run", "out", "unlock"}

(* What stands in a list.                                                  *)
Items(s) == {s[i] : i \in 1..Len(s)}

(* What an operation may be given: no node, one, two different ones, or    *)
(* four of which the last may be null.                                     *)
IsArgs(s) ==
  \/ s = <<>>
  \/ \E n \in Nodes : s = <<n>>
  \/ \E f, t \in Nodes : f # t /\ s = <<f, t>>
  \/ \E tdvp, fdvp, fvp \in Nodes, tvp \in Nodes \cup {NULL} :
       s = <<tdvp, fdvp, fvp, tvp>>

(* A node or null.                                                         *)
Given == Nodes \cup {NULL}

(* The tree, which does not change.                                        *)
Treed ==
  /\ vtype \in [Nodes -> {"VDIR", "VREG"}]
  /\ parent \in [Nodes -> Nodes \cup {NULL}]

Typed ==
  /\ links \in [Nodes -> SUBSET Nodes]
  /\ owner \in [Nodes -> SUBSET Threads]
  /\ biglock \in SUBSET Threads
  /\ pc \in [Threads -> Places]
  /\ args = [th \in Threads |-> args[th]]
  /\ list = [th \in Threads |-> list[th]]
  /\ at \in [Threads -> Nat]

(* A thread locks and unlocks the nodes it was given, null ones aside, and *)
(* is as far in its list as its place says.                                *)
OnTheWay(th) ==
  /\ IsArgs(args[th])
  /\ list[th] \in Seq(Nodes) /\ Len(list[th]) <= 4
  /\ Items(list[th]) = Items(args[th]) \ {NULL}
  /\ at[th] <= Len(list[th])
  /\ pc[th] = "idle" => list[th] = <<>> /\ at[th] = 0
  /\ pc[th] \in {"run", "out"} => at[th] = Len(list[th])

Listed == \A th \in Threads : OnTheWay(th)

Distinct(s) == \A i, j \in 1..Len(s) : s[i] = s[j] => i = j

(* No node is unlocked twice.                                              *)
UnlockedOnce ==
  \A th \in Threads : pc[th] = "unlock" => Distinct(list[th])

(* A node has one owner at most.                                           *)
Exclusive ==
  \A n \in Nodes, s, t \in Threads : s \in owner[n] /\ t \in owner[n] => s = t

IInv ==
  /\ Treed /\ Typed /\ Listed /\ UnlockedOnce /\ Exclusive
  /\ LocksAccountedFor

-----------------------------------------------------------------------------
(* The lists.                                                              *)

(* Nodes are numbers, and null is none.                                    *)
LEMMA NodesAre == Nodes \subseteq Nat \ {0} /\ NULL \notin Nodes
  BY LockingAssumption DEF Nodes, NULL

(* What Append does to the items of a list.                                *)
LEMMA AppendItems ==
  ASSUME NEW S, NEW s \in Seq(S), NEW c \in S
  PROVE  /\ Append(s, c) \in Seq(S)
         /\ Len(Append(s, c)) = Len(s) + 1
         /\ Items(Append(s, c)) = Items(s) \cup {c}
<1>. DEFINE r == Append(s, c)
<1>1. /\ r \in Seq(S) /\ Len(r) = Len(s) + 1 /\ Len(s) \in Nat
      /\ \A i \in 1..Len(s) : r[i] = s[i]
      /\ r[Len(s) + 1] = c
  OBVIOUS
<1>2. 1..(Len(s) + 1) = (1..Len(s)) \cup {Len(s) + 1}
  BY <1>1
<1>3. Items(r) = Items(s) \cup {c}
  BY <1>1, <1>2 DEF Items
<1>. QED BY <1>1, <1>3

(* A node that is skipped is null or in the list.                          *)
LEMMA SkippedIsThere ==
  ASSUME NEW s \in Seq(Nodes), NEW c, Skip(s, c)
  PROVE  c = NULL \/ c \in Items(s)
  BY DEF Skip, Items

-----------------------------------------------------------------------------
(* Locking four nodes.                                                     *)

(* The sentinel comes after everything.                                    *)
LEMMA SentinelLast ==
  ASSUME NEW x \in Nodes \cup {NULL}, NEW y
  PROVE  IsOrdered(x, Sentinel) /\ ~IsOrdered(Sentinel, y)
  BY NodesAre DEF IsOrdered, Sentinel, NULL

(* A sorted pair holds the two nodes, in some order, and the sentinel.     *)
LEMMA SortedIs ==
  ASSUME NEW x \in Nodes \cup {NULL}, NEW y \in Nodes \cup {NULL}
  PROVE  \E u, v \in Nodes \cup {NULL} :
           {u, v} = {x, y} /\ Sorted(x, y) = <<u, v, Sentinel>>
  BY DEF Sorted

(* What k turns of the merge have made of the sorted pairs u and v.        *)
Merged(a, b, m, k) ==
  /\ m.i \in 1..3 /\ m.j \in 1..3 /\ m.i + m.j = k + 2
  /\ m.list \in Seq(Nodes) /\ Len(m.list) <= k
  /\ Items(m.list) = ({a[p] : p \in 1..(m.i - 1)}
                        \cup {b[q] : q \in 1..(m.j - 1)}) \ {NULL}

(* A turn of the merge takes one head of the two pairs into the list.      *)
LEMMA MergeStep ==
  ASSUME NEW u1 \in Nodes \cup {NULL}, NEW u2 \in Nodes \cup {NULL},
         NEW v1 \in Nodes \cup {NULL}, NEW v2 \in Nodes \cup {NULL},
         NEW m, NEW k \in 0..3,
         Merged(<<u1, u2, Sentinel>>, <<v1, v2, Sentinel>>, m, k)
  PROVE  Merged(<<u1, u2, Sentinel>>, <<v1, v2, Sentinel>>,
                Merge(<<u1, u2, Sentinel>>, <<v1, v2, Sentinel>>, m), k + 1)
<1>. DEFINE a == <<u1, u2, Sentinel>>
            b == <<v1, v2, Sentinel>>
            left == IsOrdered(a[m.i], b[m.j])
            c == IF left THEN a[m.i] ELSE b[m.j]
            r == Merge(a, b, m)
<1>1. /\ m.i \in 1..3 /\ m.j \in 1..3 /\ m.i + m.j = k + 2
      /\ m.list \in Seq(Nodes) /\ Len(m.list) <= k
      /\ Items(m.list) = ({a[p] : p \in 1..(m.i - 1)}
                            \cup {b[q] : q \in 1..(m.j - 1)}) \ {NULL}
  BY DEF Merged
<1>2. /\ a[1] = u1 /\ a[2] = u2 /\ a[3] = Sentinel
      /\ b[1] = v1 /\ b[2] = v2 /\ b[3] = Sentinel
  OBVIOUS
<1>3. left => m.i # 3
  BY <1>2, SentinelLast
<1>4. ~left => m.j # 3
  <2>1. SUFFICES ASSUME m.j = 3 PROVE left
    OBVIOUS
  <2>2. m.i = 1 \/ m.i = 2
    BY <1>1, <2>1
  <2>3. a[m.i] \in Nodes \cup {NULL} /\ b[m.j] = Sentinel
    BY <2>1, <2>2
  <2>. QED BY <2>3, SentinelLast
<1>5. c \in Nodes \cup {NULL}
  BY <1>1, <1>2, <1>3, <1>4
<1>6. /\ r.i = (IF left THEN m.i + 1 ELSE m.i)
      /\ r.j = (IF left THEN m.j ELSE m.j + 1)
      /\ r.list = (IF Skip(m.list, c) THEN m.list ELSE Append(m.list, c))
      /\ c = (IF left THEN a[m.i] ELSE b[m.j])
  <2>. HIDE DEF a, b, c, r
  <2>1. CASE left
    <3>1. c = a[m.i]
      BY <2>1 DEF c
    <3>2. /\ r.i = m.i + 1 /\ r.j = m.j
          /\ r.list = Taken(m.list, a[m.i])
      BY <2>1, SMT DEF r, Merge
    <3>. HIDE DEF left
    <3>. QED BY <2>1, <3>1, <3>2 DEF Taken
  <2>2. CASE ~left
    <3>1. c = b[m.j]
      BY <2>2 DEF c
    <3>2. /\ r.i = m.i /\ r.j = m.j + 1
          /\ r.list = Taken(m.list, b[m.j])
      BY <2>2, SMT DEF r, Merge
    <3>. HIDE DEF left
    <3>. QED BY <2>2, <3>1, <3>2 DEF Taken
  <2>. QED BY <2>1, <2>2
<1>. HIDE DEF a, b, left, c, r
<1>7. /\ r.list \in Seq(Nodes) /\ Len(r.list) <= k + 1
      /\ Items(r.list) = (Items(m.list) \cup {c}) \ {NULL}
  <2>1. Len(m.list) \in Nat /\ NULL \notin Items(m.list)
    BY <1>1
  <2>2. CASE Skip(m.list, c)
    <3>1. c = NULL \/ c \in Items(m.list)
      BY <2>2, <1>1, SkippedIsThere
    <3>. QED BY <2>1, <2>2, <3>1, <1>1, <1>6
  <2>3. CASE ~Skip(m.list, c)
    <3>1. c \in Nodes
      BY <2>3, <1>5 DEF Skip
    <3>2. /\ Append(m.list, c) \in Seq(Nodes)
          /\ Len(Append(m.list, c)) = Len(m.list) + 1
          /\ Items(Append(m.list, c)) = Items(m.list) \cup {c}
      BY <3>1, <1>1, AppendItems
    <3>3. Len(r.list) <= k + 1
      BY <2>3, <3>2, <1>1, <1>6
    <3>. QED BY <2>1, <2>3, <3>1, <3>2, <3>3, <1>1, <1>6, NodesAre
  <2>. QED BY <2>2, <2>3
<1>8. {a[p] : p \in 1..(r.i - 1)} \cup {b[q] : q \in 1..(r.j - 1)}
        = {a[p] : p \in 1..(m.i - 1)} \cup {b[q] : q \in 1..(m.j - 1)} \cup {c}
  <2>1. CASE left
    <3>1. 1..(r.i - 1) = 1..(m.i - 1) \cup {m.i} /\ r.j = m.j /\ c = a[m.i]
      BY <2>1, <1>1, <1>6
    <3>. QED BY <3>1
  <2>2. CASE ~left
    <3>1. 1..(r.j - 1) = 1..(m.j - 1) \cup {m.j} /\ r.i = m.i /\ c = b[m.j]
      BY <2>2, <1>1, <1>6
    <3>. QED BY <3>1
  <2>. QED BY <2>1, <2>2
<1>9. r.i \in 1..3 /\ r.j \in 1..3 /\ r.i + r.j = k + 1 + 2
  BY <1>1, <1>3, <1>4, <1>6
<1>10. Merged(a, b, r, k + 1)
  BY <1>1, <1>7, <1>8, <1>9 DEF Merged
<1>. QED BY <1>10 DEF a, b, r

(* fusefs_lockfour locks the four nodes it is given, but for null ones,    *)
(* whatever the order of locks.                                            *)
LEMMA LockFourIs ==
  ASSUME NEW c1 \in Given, NEW c2 \in Given,
         NEW c3 \in Given, NEW c4 \in Given
  PROVE  /\ LockFour(c1, c2, c3, c4) \in Seq(Nodes)
         /\ Len(LockFour(c1, c2, c3, c4)) <= 4
         /\ Items(LockFour(c1, c2, c3, c4)) = {c1, c2, c3, c4} \ {NULL}
<1>1. PICK u1, u2 \in Nodes \cup {NULL} :
        {u1, u2} = {c1, c2} /\ Sorted(c1, c2) = <<u1, u2, Sentinel>>
  BY SortedIs DEF Given
<1>2. PICK v1, v2 \in Nodes \cup {NULL} :
        {v1, v2} = {c3, c4} /\ Sorted(c3, c4) = <<v1, v2, Sentinel>>
  BY SortedIs DEF Given
<1>. DEFINE a == <<u1, u2, Sentinel>>
            b == <<v1, v2, Sentinel>>
            m0 == [i |-> 1, j |-> 1, list |-> <<>>]
            m1 == Merge(a, b, m0)
            m2 == Merge(a, b, m1)
            m3 == Merge(a, b, m2)
            m4 == Merge(a, b, m3)
<1>3. LockFour(c1, c2, c3, c4) = m4.list
  BY <1>1, <1>2 DEF LockFour
<1>4. Merged(a, b, m0, 0)
  BY DEF Merged, Items
<1>. HIDE DEF m0
<1>5. Merged(a, b, m1, 0 + 1)
  BY <1>4, MergeStep
<1>. HIDE DEF m1
<1>6. Merged(a, b, m2, 1 + 1)
  BY <1>5, MergeStep
<1>. HIDE DEF m2
<1>7. Merged(a, b, m3, 2 + 1)
  BY <1>6, MergeStep
<1>. HIDE DEF m3
<1>8. Merged(a, b, m4, 3 + 1)
  BY <1>7, MergeStep
<1>. HIDE DEF m4
<1>9. /\ m4.i = 3 /\ m4.j = 3 /\ m4.list \in Seq(Nodes) /\ Len(m4.list) <= 4
      /\ Items(m4.list)
           = ({a[p] : p \in 1..2} \cup {b[q] : q \in 1..2}) \ {NULL}
  BY <1>8 DEF Merged
<1>10. {a[p] : p \in 1..2} = {u1, u2} /\ {b[q] : q \in 1..2} = {v1, v2}
  <2>1. 1..2 = {1, 2}
    OBVIOUS
  <2>. QED BY <2>1
<1>. QED BY <1>1, <1>2, <1>3, <1>9, <1>10

(* An operation locks the nodes it is given ...                            *)
LEMMA LockListIs ==
  ASSUME NEW s, IsArgs(s)
  PROVE  /\ LockList(s) \in Seq(Nodes) /\ Len(LockList(s)) <= 4
         /\ Items(LockList(s)) = Items(s) \ {NULL}
<1>1. CASE s = <<>>
  BY <1>1 DEF LockList, Items
<1>2. ASSUME NEW n \in Nodes, s = <<n>>
      PROVE  /\ LockList(s) \in Seq(Nodes) /\ Len(LockList(s)) <= 4
             /\ Items(LockList(s)) = Items(s) \ {NULL}
  BY <1>2, NodesAre DEF LockList, Items
<1>3. ASSUME NEW f \in Nodes, NEW t \in Nodes, f # t, s = <<f, t>>
      PROVE  /\ LockList(s) \in Seq(Nodes) /\ Len(LockList(s)) <= 4
             /\ Items(LockList(s)) = Items(s) \ {NULL}
  <2>1. LockList(s) = <<f, t>> \/ LockList(s) = <<t, f>>
    BY <1>3 DEF LockList, LockPair
  <2>2. 1..2 = {1, 2}
    OBVIOUS
  <2>3. Items(<<f, t>>) = {f, t} /\ Items(<<t, f>>) = {f, t}
    BY <2>2 DEF Items
  <2>4. Items(LockList(s)) = {f, t} /\ Items(s) = {f, t}
    BY <1>3, <2>1, <2>3
  <2>5. LockList(s) \in Seq(Nodes) /\ Len(LockList(s)) = 2
    BY <1>3, <2>1
  <2>6. {f, t} = {f, t} \ {NULL} /\ 2 <= 4
    BY NodesAre
  <2>. QED BY <2>4, <2>5, <2>6
<1>4. ASSUME NEW a \in Nodes, NEW b \in Nodes, NEW c \in Nodes,
             NEW d \in Nodes \cup {NULL}, s = <<a, b, c, d>>
      PROVE  /\ LockList(s) \in Seq(Nodes) /\ Len(LockList(s)) <= 4
             /\ Items(LockList(s)) = Items(s) \ {NULL}
  <2>1. LockList(s) = LockFour(a, b, c, d)
    BY <1>4 DEF LockList
  <2>2. 1..4 = {1, 2, 3, 4}
    OBVIOUS
  <2>3. Items(s) = {a, b, c, d}
    BY <1>4, <2>2 DEF Items
  <2>4. /\ LockFour(a, b, c, d) \in Seq(Nodes)
        /\ Len(LockFour(a, b, c, d)) <= 4
        /\ Items(LockFour(a, b, c, d)) = {a, b, c, d} \ {NULL}
    <3>1. a \in Given /\ b \in Given /\ c \in Given /\ d \in Given
      BY DEF Given
    <3>. QED BY <3>1, LockFourIs
  <2>. QED BY <2>1, <2>3, <2>4
<1>. QED BY <1>1, <1>2, <1>3, <1>4 DEF IsArgs

-----------------------------------------------------------------------------
(* Unlocking.                                                              *)

(* Nothing gets into the list of fusefs_unlockfour twice.                  *)
LEMMA UnlockOnceIs ==
  ASSUME NEW s \in Seq(Nodes), Distinct(s), NEW c \in Given
  PROVE  /\ UnlockOnce(s, c) \in Seq(Nodes) /\ Distinct(UnlockOnce(s, c))
         /\ Len(UnlockOnce(s, c)) <= Len(s) + 1
         /\ Items(UnlockOnce(s, c)) = (Items(s) \cup {c}) \ {NULL}
<1>1. NULL \notin Items(s)
  BY NodesAre DEF Items
<1>2. CASE c = NULL \/ c \in Items(s)
  <2>1. UnlockOnce(s, c) = s
    BY <1>2 DEF UnlockOnce, Items
  <2>. QED BY <1>1, <1>2, <2>1
<1>3. CASE c # NULL /\ c \notin Items(s)
  <2>. DEFINE r == Append(s, c)
  <2>1. UnlockOnce(s, c) = r /\ c \in Nodes
    BY <1>3 DEF UnlockOnce, Items, Given
  <2>2. r \in Seq(Nodes) /\ Len(r) = Len(s) + 1 /\ Items(r) = Items(s) \cup {c}
    BY <2>1, AppendItems
  <2>3. /\ \A i \in 1..Len(s) : r[i] = s[i] /\ r[i] # c
        /\ r[Len(s) + 1] = c /\ Len(s) \in Nat
    BY <1>3, <2>1 DEF Items
  <2>4. Distinct(r)
    BY <2>2, <2>3 DEF Distinct
  <2>. QED BY <1>1, <1>3, <2>1, <2>2, <2>4
<1>. QED BY <1>2, <1>3

(* The arguments of an operation are nodes or null.                        *)
LEMMA ArgsTyped ==
  ASSUME NEW s, IsArgs(s)
  PROVE  s \in Seq(Nodes \cup {NULL})
<1>1. ASSUME NEW n \in Nodes, s = <<n>> PROVE s \in Seq(Nodes \cup {NULL})
  BY <1>1
<1>2. ASSUME NEW f \in Nodes, NEW t \in Nodes, s = <<f, t>>
      PROVE  s \in Seq(Nodes \cup {NULL})
  BY <1>2
<1>3. ASSUME NEW a \in Nodes, NEW b \in Nodes, NEW c \in Nodes,
             NEW d \in Nodes \cup {NULL}, s = <<a, b, c, d>>
      PROVE  s \in Seq(Nodes \cup {NULL})
  BY <1>3
<1>4. CASE s = <<>>
  BY <1>4
<1>. QED BY <1>1, <1>2, <1>3, <1>4 DEF IsArgs

(* ... and unlocks the same nodes, each of them once.                      *)
LEMMA UnlockListIs ==
  ASSUME NEW s, IsArgs(s)
  PROVE  /\ UnlockList(s) \in Seq(Nodes) /\ Len(UnlockList(s)) <= 4
         /\ Items(UnlockList(s)) = Items(s) \ {NULL}
         /\ Distinct(UnlockList(s))
<1>1. CASE s = <<>>
  BY <1>1 DEF UnlockList, Items, Distinct
<1>2. ASSUME NEW n \in Nodes, s = <<n>>
      PROVE  /\ UnlockList(s) \in Seq(Nodes) /\ Len(UnlockList(s)) <= 4
             /\ Items(UnlockList(s)) = Items(s) \ {NULL}
             /\ Distinct(UnlockList(s))
  BY <1>2, NodesAre DEF UnlockList, Items, Distinct
<1>3. ASSUME NEW f \in Nodes, NEW t \in Nodes, f # t, s = <<f, t>>
      PROVE  /\ UnlockList(s) \in Seq(Nodes) /\ Len(UnlockList(s)) <= 4
             /\ Items(UnlockList(s)) = Items(s) \ {NULL}
             /\ Distinct(UnlockList(s))
  <2>1. UnlockList(s) = <<f, t>>
    BY <1>3 DEF UnlockList, UnlockPair
  <2>2. NULL \notin Items(s)
    BY <1>3, NodesAre DEF Items
  <2>3. s \in Seq(Nodes) /\ Len(s) = 2 /\ Distinct(s) /\ UnlockList(s) = s
    BY <1>3, <2>1 DEF Distinct
  <2>4. Items(s) = Items(s) \ {NULL} /\ Len(s) <= 4
    BY <2>2, <2>3
  <2>. QED BY <2>3, <2>4
<1>4. ASSUME NEW a \in Nodes, NEW b \in Nodes, NEW c \in Nodes,
             NEW d \in Nodes \cup {NULL}, s = <<a, b, c, d>>
      PROVE  /\ UnlockList(s) \in Seq(Nodes) /\ Len(UnlockList(s)) <= 4
             /\ Items(UnlockList(s)) = Items(s) \ {NULL}
             /\ Distinct(UnlockList(s))
  <2>. DEFINE s1 == UnlockOnce(<<>>, a)
              s2 == UnlockOnce(s1, b)
              s3 == UnlockOnce(s2, c)
              s4 == UnlockOnce(s3, d)
  <2>1. UnlockList(s) = s4
    BY <1>4 DEF UnlockList, UnlockFour
  <2>2. a \in Given /\ b \in Given /\ c \in Given /\ d \in Given
    BY DEF Given
  <2>3. /\ <<>> \in Seq(Nodes) /\ Distinct(<<>>)
        /\ Len(<<>>) = 0 /\ Items(<<>>) = {}
    BY DEF Distinct, Items
  <2>. HIDE DEF s4, s3, s2, s1
  <2>4. /\ s1 \in Seq(Nodes) /\ Distinct(s1) /\ Len(s1) <= 1
        /\ Items(s1) = {a} \ {NULL}
    <3>1. /\ s1 \in Seq(Nodes) /\ Distinct(s1)
          /\ Len(s1) <= Len(<<>>) + 1
          /\ Items(s1) = (Items(<<>>) \cup {a}) \ {NULL}
      BY <2>2, <2>3, UnlockOnceIs DEF s1
    <3>. QED BY <2>3, <3>1
  <2>5. /\ s2 \in Seq(Nodes) /\ Distinct(s2) /\ Len(s2) <= 2
        /\ Items(s2) = {a, b} \ {NULL}
    <3>1. /\ s2 \in Seq(Nodes) /\ Distinct(s2)
          /\ Len(s2) <= Len(s1) + 1
          /\ Items(s2) = (Items(s1) \cup {b}) \ {NULL}
      BY <2>2, <2>4, UnlockOnceIs DEF s2
    <3>2. Items(s2) = {a, b} \ {NULL}
      <4>1. Items(s2) = (({a} \ {NULL}) \cup {b}) \ {NULL}
        BY <2>4, <3>1
      <4>. QED BY <4>1
    <3>3. Len(s2) <= 2
      <4>1. Len(s1) <= 1 /\ Len(s2) <= Len(s1) + 1
        BY <2>4, <3>1
      <4>. QED BY <4>1, <3>1
    <3>. QED BY <3>1, <3>2, <3>3
  <2>6. /\ s3 \in Seq(Nodes) /\ Distinct(s3) /\ Len(s3) <= 3
        /\ Items(s3) = {a, b, c} \ {NULL}
    <3>1. /\ s3 \in Seq(Nodes) /\ Distinct(s3)
          /\ Len(s3) <= Len(s2) + 1
          /\ Items(s3) = (Items(s2) \cup {c}) \ {NULL}
      BY <2>2, <2>5, UnlockOnceIs DEF s3
    <3>2. Items(s3) = {a, b, c} \ {NULL}
      <4>1. Items(s3) = (({a, b} \ {NULL}) \cup {c}) \ {NULL}
        BY <2>5, <3>1
      <4>. QED BY <4>1
    <3>3. Len(s3) <= 3
      <4>1. Len(s2) <= 2 /\ Len(s3) <= Len(s2) + 1
        BY <2>5, <3>1
      <4>. QED BY <4>1, <3>1
    <3>. QED BY <3>1, <3>2, <3>3
  <2>7. /\ s4 \in Seq(Nodes) /\ Distinct(s4) /\ Len(s4) <= 4
        /\ Items(s4) = {a, b, c, d} \ {NULL}
    <3>1. /\ s4 \in Seq(Nodes) /\ Distinct(s4)
          /\ Len(s4) <= Len(s3) + 1
          /\ Items(s4) = (Items(s3) \cup {d}) \ {NULL}
      BY <2>2, <2>6, UnlockOnceIs DEF s4
    <3>2. Items(s4) = {a, b, c, d} \ {NULL}
      <4>1. Items(s4) = (({a, b, c} \ {NULL}) \cup {d}) \ {NULL}
        BY <2>6, <3>1
      <4>. QED BY <4>1
    <3>3. Len(s4) <= 4
      <4>1. Len(s3) <= 3 /\ Len(s4) <= Len(s3) + 1
        BY <2>6, <3>1
      <4>. QED BY <4>1, <3>1
    <3>. QED BY <3>1, <3>2, <3>3
  <2>8. Items(s) = {a, b, c, d}
    <3>1. 1..4 = {1, 2, 3, 4}
      OBVIOUS
    <3>. QED BY <1>4, <3>1 DEF Items
  <2>. QED BY <2>1, <2>7, <2>8
<1>. QED BY <1>1, <1>2, <1>3, <1>4 DEF IsArgs

-----------------------------------------------------------------------------
(* Every step keeps the invariant.                                         *)

(* A thread that does not move stays as far and holds the same nodes.      *)
LEMMA SameThread ==
  ASSUME NEW t \in Threads, UNCHANGED <<pc[t], args[t], list[t], at[t]>>
  PROVE  OnTheWay(t)' = OnTheWay(t) /\ Held(t)' = Held(t)
  BY DEF OnTheWay, Held

(* Idle threads hold nothing.                                              *)
THEOREM InvariantInit == Init => IInv
<1>. SUFFICES ASSUME Init PROVE IInv
  OBVIOUS
<1>1. Treed /\ Typed
  <2>1. links \in [Nodes -> SUBSET Nodes]
    BY NodesAre DEF Init, Dirs
  <2>. QED BY <2>1 DEF Init, Treed, Typed, Places, Dirs
<1>2. Listed
  BY DEF Init, Listed, OnTheWay, IsArgs, Items
<1>3. UnlockedOnce /\ Exclusive /\ LocksAccountedFor
  BY DEF Init, UnlockedOnce, Exclusive, LocksAccountedFor, Held
<1>. QED BY <1>1, <1>2, <1>3 DEF IInv

(* A thread that enters an operation has a list and holds nothing yet.     *)
LEMMA EnterStep ==
  ASSUME IInv, NEW th \in Threads, NEW s, IsArgs(s), Enter(th, s)
  PROVE  IInv'
<1>1. /\ LockList(s) \in Seq(Nodes) /\ Len(LockList(s)) <= 4
      /\ Items(LockList(s)) = Items(s) \ {NULL}
  BY LockListIs
<1>2. Treed' /\ Typed'
  BY DEF IInv, Treed, Typed, Places, Enter, tree
<1>6. \A t \in Threads \ {th} : UNCHANGED <<pc[t], args[t], list[t], at[t]>>
  BY DEF IInv, Typed, Enter
<1>3. Listed'
  <2>1. OnTheWay(th)'
    BY <1>1 DEF IInv, Typed, Listed, OnTheWay, Enter
  <2>. QED BY <1>6, <2>1, SameThread DEF IInv, Listed
<1>4. UnlockedOnce' /\ Exclusive'
  BY DEF IInv, Typed, UnlockedOnce, Exclusive, Enter
<1>5. LocksAccountedFor'
  <2>1. Held(th) = {}
    BY DEF IInv, Typed, Listed, OnTheWay, Enter, Held
  <2>2. Held(th)' = {}
    BY DEF IInv, Typed, Listed, OnTheWay, Enter, Held
  <2>3. owner' = owner
    BY DEF Enter
  <2>. QED BY <1>6, <2>1, <2>2, <2>3, SameThread DEF IInv, LocksAccountedFor
<1>. QED BY <1>2, <1>3, <1>4, <1>5 DEF IInv

(* The node that is locked is free, and becomes one of those its thread    *)
(* holds.                                                                  *)
LEMMA LockStep ==
  ASSUME IInv, NEW th \in Threads, Lock(th)
  PROVE  IInv'
<1>1. /\ pc[th] = "lock" /\ list[th] \in Seq(Nodes) /\ at[th] \in Nat
      /\ at[th] < Len(list[th]) /\ Now(th) = list[th][at[th] + 1]
      /\ Now(th) \in Nodes /\ owner[Now(th)] = {}
  BY DEF IInv, Typed, Listed, OnTheWay, Lock, Now
<1>2. Treed' /\ Typed'
  BY <1>1 DEF IInv, Treed, Typed, Lock, tree
<1>3. Listed' /\ UnlockedOnce' /\ Exclusive'
  BY <1>1 DEF IInv, Typed, Listed, OnTheWay, UnlockedOnce, Exclusive, Lock
<1>4. LocksAccountedFor'
  <2>1. 1..at'[th] = 1..at[th] \cup {at[th] + 1}
    BY <1>1 DEF Lock, IInv, Typed
  <2>2. Held(th)' = Held(th) \cup {Now(th)}
    BY <1>1, <2>1 DEF Lock, Held
  <2>3. \A t \in Threads \ {th} : Held(t)' = Held(t)
    BY DEF IInv, Typed, Lock, Held
  <2>4. owner' = [owner EXCEPT ![Now(th)] = {th}]
    BY DEF Lock
  <2>. QED BY <1>1, <2>2, <2>3, <2>4 DEF IInv, Typed, LocksAccountedFor
<1>. QED BY <1>2, <1>3, <1>4 DEF IInv

(* Taking the big lock, dropping it and taking it again: the nodes a       *)
(* thread holds are those of its whole list before and after.              *)
LEMMA BiglockStep ==
  ASSUME IInv, NEW th \in Threads,
         TakeBiglock(th) \/ DropBiglock(th) \/ RetakeBiglock(th)
  PROVE  IInv'
<1>1. /\ pc[th] # "unlock" /\ pc'[th] \in {"run", "out"}
      /\ pc' = [pc EXCEPT ![th] = pc'[th]]
      /\ UNCHANGED <<vtype, parent, links, owner, args, list, at>>
      /\ at[th] = Len(list[th])
  BY
  DEF IInv, Typed, Listed, OnTheWay, TakeBiglock, DropBiglock, RetakeBiglock,
      tree
<1>2. Treed' /\ Typed'
  BY <1>1 DEF IInv, Treed, Typed, Places, TakeBiglock, DropBiglock,
              RetakeBiglock
<1>3. Listed' /\ UnlockedOnce' /\ Exclusive'
  BY <1>1 DEF IInv, Typed, Listed, OnTheWay, UnlockedOnce, Exclusive
<1>4. LocksAccountedFor'
  <2>1. \A t \in Threads \ {th} : Held(t)' = Held(t)
    BY <1>1, SameThread DEF IInv, Typed
  <2>2. pc[th] \in {"lock", "run", "out"}
    BY DEF TakeBiglock, DropBiglock, RetakeBiglock
  <2>3. Held(th) = {list[th][i] : i \in 1..Len(list[th])}
    BY <1>1, <2>2 DEF Held
  <2>4. Held(th)' = {list[th][i] : i \in 1..Len(list[th])}
    BY <1>1 DEF Held
  <2>. QED BY <1>1, <2>1, <2>3, <2>4 DEF IInv, LocksAccountedFor
<1>. QED BY <1>2, <1>3, <1>4 DEF IInv

(* The list to unlock holds the nodes of the list that was locked.         *)
LEMMA RunStep ==
  ASSUME IInv, NEW th \in Threads, Run(th)
  PROVE  IInv'
<1>1. /\ UnlockList(args[th]) \in Seq(Nodes)
      /\ Len(UnlockList(args[th])) <= 4
      /\ Items(UnlockList(args[th])) = Items(args[th]) \ {NULL}
      /\ Distinct(UnlockList(args[th]))
  BY UnlockListIs DEF IInv, Listed, OnTheWay
<1>2. links' \in [Nodes -> SUBSET Nodes]
  <2>1. CASE UNCHANGED links
    BY <2>1 DEF IInv, Typed
  <2>2. CASE Len(args[th]) = 4 /\ Renamed(args[th])
    <3>1. args[th][1] \in Nodes
      BY <2>2 DEF IInv, Listed, OnTheWay, IsArgs
    <3>. QED BY <2>2, <3>1 DEF IInv, Typed, Renamed
  <2>. QED BY <2>1, <2>2 DEF Run
<1>3. Treed' /\ Typed'
  BY <1>2 DEF IInv, Treed, Typed, Places, Run, tree
<1>4. Listed' /\ UnlockedOnce' /\ Exclusive'
  BY <1>1
  DEF IInv, Typed, Listed, OnTheWay, UnlockedOnce, Distinct, Exclusive, Run
<1>5. LocksAccountedFor'
  <2>1. Held(th) = Items(args[th]) \ {NULL}
    BY DEF IInv, Typed, Listed, OnTheWay, Run, Held, Items
  <2>2. Held(th)' = Items(UnlockList(args[th]))
    BY <1>1 DEF IInv, Typed, Run, Held, Items
  <2>3. \A t \in Threads \ {th} : Held(t)' = Held(t)
    BY SameThread DEF IInv, Typed, Run
  <2>4. owner' = owner
    BY DEF Run
  <2>. QED BY <1>1, <2>1, <2>2, <2>3, <2>4 DEF IInv, LocksAccountedFor
<1>. QED BY <1>3, <1>4, <1>5 DEF IInv

(* The node that is unlocked does not come again in the list.              *)
LEMMA UnlockStep ==
  ASSUME IInv, NEW th \in Threads, Unlock(th)
  PROVE  IInv'
<1>1. /\ pc[th] = "unlock" /\ list[th] \in Seq(Nodes) /\ at[th] \in Nat
      /\ at[th] < Len(list[th]) /\ Now(th) = list[th][at[th] + 1]
      /\ Now(th) \in Nodes
      /\ \A i, j \in 1..Len(list[th]) : list[th][i] = list[th][j] => i = j
  BY DEF IInv, Typed, Listed, OnTheWay, UnlockedOnce, Distinct, Unlock, Now
<1>2. Treed' /\ Typed'
  BY <1>1 DEF IInv, Treed, Typed, Unlock, tree
<1>3. Listed' /\ UnlockedOnce' /\ Exclusive'
  BY <1>1 DEF IInv, Typed, Listed, OnTheWay, UnlockedOnce, Exclusive, Unlock
<1>4. LocksAccountedFor'
  <2>1. (at[th] + 1)..Len(list[th])
          = {at[th] + 1} \cup (at[th] + 2)..Len(list[th])
    BY <1>1
  <2>2. Held(th) = {list[th][i] : i \in (at[th] + 1)..Len(list[th])}
    BY <1>1 DEF Held
  <2>3. Held(th)' = {list[th][i] : i \in (at[th] + 2)..Len(list[th])}
    <3>1. /\ pc'[th] = "unlock" /\ list' = list /\ at'[th] + 1 = at[th] + 2
      BY <1>1 DEF Unlock, IInv, Typed
    <3>. QED BY <3>1 DEF Held
  <2>4. Held(th)' = Held(th) \ {Now(th)} /\ Now(th) \in Held(th)
    BY <1>1, <2>1, <2>2, <2>3
  <2>5. \A t \in Threads \ {th} : Held(t)' = Held(t)
    BY DEF IInv, Typed, Unlock, Held
  <2>6. owner' = [owner EXCEPT ![Now(th)] = {}]
    BY DEF Unlock
  <2>. QED BY <1>1, <2>4, <2>5, <2>6, SMTT(30)
    DEF IInv, Typed, Exclusive, LocksAccountedFor
<1>. QED BY <1>2, <1>3, <1>4 DEF IInv

(* A thread that leaves has unlocked all.                                  *)
LEMMA LeaveStep ==
  ASSUME IInv, NEW th \in Threads, Leave(th)
  PROVE  IInv'
<1>1. Treed' /\ Typed'
  BY DEF IInv, Treed, Typed, Places, Leave, tree
<1>2. Listed'
  <2>1. OnTheWay(th)'
    <3>1. /\ args'[th] = <<>> /\ list'[th] = <<>> /\ at'[th] = 0
          /\ pc'[th] = "idle"
      BY DEF IInv, Typed, Leave
    <3>. QED BY <3>1 DEF OnTheWay, IsArgs, Items
  <2>2. \A t \in Threads \ {th} : UNCHANGED <<pc[t], args[t], list[t], at[t]>>
    BY DEF IInv, Typed, Leave
  <2>. QED BY <2>1, <2>2, SameThread DEF IInv, Listed
<1>3. UnlockedOnce' /\ Exclusive'
  BY DEF IInv, Typed, UnlockedOnce, Exclusive, Leave
<1>4. LocksAccountedFor'
  <2>1. Held(th) = {}
    BY DEF IInv, Typed, Listed, OnTheWay, Leave, Held
  <2>2. Held(th)' = {}
    BY DEF IInv, Typed, Leave, Held
  <2>3. \A t \in Threads \ {th} : Held(t)' = Held(t)
    BY DEF IInv, Typed, Leave, Held
  <2>4. owner' = owner
    BY DEF Leave
  <2>. QED BY <2>1, <2>2, <2>3, <2>4 DEF IInv, LocksAccountedFor
<1>. QED BY <1>1, <1>2, <1>3, <1>4 DEF IInv

(* What the operations are given.                                          *)
LEMMA EntersWithArgs ==
  ASSUME NEW th \in Threads,
         Unnoded(th) \/ Single(th) \/ Exchange(th) \/ Rename(th)
  PROVE  \E s : IsArgs(s) /\ Enter(th, s)
<1>1. CASE Unnoded(th)
  BY <1>1 DEF Unnoded, IsArgs
<1>2. CASE Single(th)
  BY <1>2 DEF Single, IsArgs
<1>3. CASE Exchange(th)
  BY <1>3 DEF Exchange, IsArgs
<1>4. CASE Rename(th)
  BY <1>4 DEF Rename, IsArgs, Dirs
<1>. QED BY <1>1, <1>2, <1>3, <1>4

(* Every step keeps the invariant.                                         *)
THEOREM InvariantStep == IInv /\ [Next]_vars => IInv'
<1>. SUFFICES ASSUME IInv, [Next]_vars PROVE IInv'
  OBVIOUS
<1>1. ASSUME NEW th \in Threads,
             Unnoded(th) \/ Single(th) \/ Exchange(th) \/ Rename(th)
      PROVE  IInv'
  BY <1>1, EntersWithArgs, EnterStep
<1>2. ASSUME NEW th \in Threads, Advance(th) PROVE IInv'
  BY <1>2, LockStep, BiglockStep, UnlockStep, LeaveStep DEF Advance
<1>3. ASSUME NEW th \in Threads, Run(th) \/ DropBiglock(th) PROVE IInv'
  BY <1>3, RunStep, BiglockStep
<1>4. CASE UNCHANGED vars
  BY <1>4
  DEF vars, IInv, Treed, Typed, Listed, OnTheWay, UnlockedOnce, Exclusive,
              LocksAccountedFor, Held
<1>. QED BY <1>1, <1>2, <1>3, <1>4 DEF Next

(* The inductive invariant of the node locks: what a thread has to lock or *)
(* unlock is what its operation was given, and it is as far in it as its   *)
(* place says.                                                             *)
THEOREM InvariantHolds == Spec => []IInv
  BY InvariantInit, InvariantStep, PTL DEF Spec

(* Every variable keeps its type.                                          *)
THEOREM TypesHold == Spec => []TypeOK
<1>1. IInv => TypeOK
  <2>. SUFFICES ASSUME IInv PROVE TypeOK
    OBVIOUS
  <2>1. ASSUME NEW th \in Threads
        PROVE  args[th] \in Seq(Nodes \cup {NULL}) /\ at[th] \in 0..4
    <3>1. IsArgs(args[th])
      BY DEF IInv, Listed, OnTheWay
    <3>2. at[th] \in Nat /\ Len(list[th]) <= 4 /\ at[th] <= Len(list[th])
      BY DEF IInv, Typed, Listed, OnTheWay
    <3>3. args[th] \in Seq(Nodes \cup {NULL})
      BY <3>1, ArgsTyped
    <3>4. at[th] \in 0..4
      BY <3>2
    <3>. QED BY <3>3, <3>4
  <2>2. /\ args \in [Threads -> Seq(Nodes \cup {NULL})]
        /\ at \in [Threads -> 0..4]
    BY <2>1 DEF IInv, Typed
  <2>3. list \in [Threads -> Seq(Nodes)]
    BY DEF IInv, Typed, Listed, OnTheWay
  <2>. QED BY <2>2, <2>3 DEF IInv, Treed, Typed, TypeOK, Places
<1>. QED BY <1>1, InvariantHolds, PTL

(* A node is locked by a thread exactly if the thread's operation has      *)
(* locked it and not yet released it: duplicates and null nodes do not     *)
(* unbalance fusefs_lockfour and fusefs_unlockfour, and nothing stays      *)
(* locked.                                                                 *)
THEOREM LocksAreAccountedFor == Spec => []LocksAccountedFor
  BY InvariantHolds, PTL DEF IInv

-----------------------------------------------------------------------------
(* No circle of waiting threads, if nothing moves between directories.     *)

(* A node that is locked before another: its parent, or one with a smaller *)
(* address, of two files or of two directories in the same one.            *)
Before(m, n) ==
  \/ parent[n] = m
  \/ /\ m < n /\ vtype[m] = vtype[n]
     /\ vtype[n] = "VDIR" => parent[m] = parent[n]

InOrder(s) == \A i, j \in 1..Len(s) : i < j => Before(s[i], s[j])

(* Parents are directories, and their relation has no circle.              *)
Rooted ==
  /\ \A n \in Nodes : parent[n] \in Dirs \cup {NULL}
  /\ \A S \in SUBSET Nodes : S # {} => \E n \in S : parent[n] \notin S

(* A node is nowhere but in the directory it was looked up in.             *)
NamesKept == \A n \in Nodes : links[n] \subseteq {parent[n]}

(* Renames are within a directory.                                         *)
RenamesWithin ==
  \A th \in Threads : Len(args[th]) = 4 => args[th][1] = args[th][2]

LockedInOrder == \A th \in Threads : pc[th] = "lock" => InOrder(list[th])

OInv == Rooted /\ NamesKept /\ RenamesWithin /\ LockedInOrder

(* A set of nodes has a largest one.                                       *)
LEMMA LargestOf ==
  ASSUME NEW S \in SUBSET Nodes, S # {}
  PROVE  \E x \in S : \A y \in S : y <= x
<1>. DEFINE T == {LastNode - x : x \in S}
<1>1. T \subseteq Nat /\ T # {} /\ \A x \in S : x \in Nat /\ x <= LastNode
  <2>1. ASSUME NEW x \in S
        PROVE  x \in Nat /\ x <= LastNode /\ LastNode - x \in Nat
    BY LockingAssumption DEF Nodes
  <2>. QED BY <2>1
<1>2. PICK t \in T : \A u \in T : <<u, t>> \notin OpToRel(<, Nat)
  <2>. HIDE DEF T
  <2>. QED BY <1>1, NatLessThanWellFounded, WFMin
<1>3. \A u \in T : ~(u < t)
  <2>. HIDE DEF T
  <2>. QED BY <1>1, <1>2 DEF OpToRel
<1>4. PICK x \in S : t = LastNode - x
  OBVIOUS
<1>5. ASSUME NEW y \in S PROVE y <= x
  <2>1. ~(LastNode - y < LastNode - x)
    BY <1>3, <1>4
  <2>. QED BY <2>1, <1>1, LockingAssumption
<1>. QED BY <1>5

(* In no set of nodes does each have one of the others after it.  A        *)
(* largest file has none, so all are directories; of the children of one   *)
(* directory the largest must have a child among them; so a finite set of  *)
(* directories would be closed under parents.                              *)
LEMMA BeforeHasNoCircle ==
  ASSUME Treed, Rooted, NEW W \in SUBSET Nodes, W # {}
  PROVE  \E w \in W : \A n \in W : ~Before(w, n)
<1>. SUFFICES ASSUME \A w \in W : \E n \in W : Before(w, n) PROVE FALSE
  OBVIOUS
<1>0. \A n \in W : n \in Nat /\ n # NULL /\ vtype[n] \in {"VDIR", "VREG"}
  BY NodesAre DEF Treed
<1>1. \A n \in W : vtype[n] = "VDIR"
  <2>. DEFINE F == {n \in W : vtype[n] = "VREG"}
  <2>. SUFFICES ASSUME F # {} PROVE FALSE
    BY <1>0
  <2>1. PICK x \in F : \A y \in F : y <= x
    <3>1. F \in SUBSET Nodes
      OBVIOUS
    <3>. HIDE DEF F
    <3>. QED BY <3>1, LargestOf
  <2>2. PICK n \in W : Before(x, n)
    OBVIOUS
  <2>3. parent[n] # x
    BY <1>0 DEF Rooted, Dirs
  <2>4. n \in F /\ x < n
    BY <2>2, <2>3 DEF Before
  <2>. QED BY <2>1, <2>4, <1>0
(* The directories among them that have one of them below.                 *)
<1>. DEFINE D == {w \in W : \E n \in W : parent[n] = w}
<1>2. ASSUME NEW w \in W
      PROVE  \E d \in D : parent[d] = parent[w]
  <2>. DEFINE F == {n \in W : parent[n] = parent[w]}
  <2>1. PICK x \in F : \A y \in F : y <= x
    <3>1. F \in SUBSET Nodes /\ w \in F
      OBVIOUS
    <3>. HIDE DEF F
    <3>. QED BY <3>1, LargestOf
  <2>2. PICK n \in W : Before(x, n)
    OBVIOUS
  <2>3. ~(x < n /\ parent[x] = parent[n])
    BY <2>1, <1>0
  <2>4. parent[n] = x
    BY <2>2, <2>3, <1>1 DEF Before
  <2>. QED BY <2>4
<1>3. D # {} /\ \A d \in D : \E e \in D : parent[e] = d
  BY <1>2
<1>. DEFINE U == {d \in D : parent[d] \in D}
            f == [d \in U |-> parent[d]]
<1>4. IsFiniteSet(D) /\ D \in SUBSET Nodes
  <2>1. D \in SUBSET Nodes
    OBVIOUS
  <2>2. IsFiniteSet(Nodes)
    BY LockingAssumption, FS_Interval DEF Nodes
  <2>. HIDE DEF D
  <2>. QED BY <2>1, <2>2, FS_Subset
<1>. HIDE DEF D
<1>5. U \in SUBSET D /\ f \in Surjection(U, D)
  BY <1>3 DEF Surjection
<1>. HIDE DEF U, f
<1>6. IsFiniteSet(U) /\ Cardinality(U) <= Cardinality(D)
  BY <1>4, <1>5, FS_Subset
<1>7. Cardinality(D) <= Cardinality(U)
  BY <1>5, <1>6, FS_Surjection
<1>8. Cardinality(D) \in Nat /\ Cardinality(U) \in Nat
  BY <1>4, <1>6, FS_CardinalityType
<1>9. Cardinality(D) = Cardinality(U)
  BY <1>6, <1>7, <1>8
<1>10. U = D
  BY <1>4, <1>5, <1>9, FS_Subset
<1>11. \A d \in D : parent[d] \in D
  BY <1>10 DEF U
<1>. QED BY <1>3, <1>4, <1>11 DEF Rooted

-----------------------------------------------------------------------------
(* The order in which a rename locks.                                      *)

(* A list that has one item more than another is what Append makes.        *)
LEMMA AppendIs ==
  ASSUME NEW S, NEW p \in Seq(S), NEW c \in S, NEW q \in Seq(S),
         Len(q) = Len(p) + 1, q[Len(p) + 1] = c,
         \A i \in 1..Len(p) : q[i] = p[i]
  PROVE  Append(p, c) = q
<1>. DEFINE r == Append(p, c)
<1>1. /\ r \in Seq(S) /\ Len(r) = Len(p) + 1 /\ r[Len(p) + 1] = c
      /\ \A i \in 1..Len(p) : r[i] = p[i]
  BY AppendProperties
<1>2. \A i \in 1..(Len(p) + 1) : r[i] = q[i]
  BY <1>1
<1>. HIDE DEF r
<1>3. r = q
  BY <1>1, <1>2, SeqEqual
<1>. QED BY <1>3 DEF r

(* How a list of different nodes grows.                                    *)
LEMMA SkipIs ==
  ASSUME NEW x, NEW y, NEW z, x # NULL, y # NULL, z # NULL, x # y, y # z
  PROVE  /\ Skip(<<>>, NULL) /\ ~Skip(<<>>, x) /\ Append(<<>>, x) = <<x>>
         /\ Skip(<<x>>, x) /\ ~Skip(<<x>>, y) /\ Append(<<x>>, y) = <<x, y>>
         /\ ~Skip(<<x, y>>, z) /\ Append(<<x, y>>, z) = <<x, y, z>>
<1>1. Skip(<<>>, NULL) /\ ~Skip(<<>>, x) /\ Append(<<>>, x) = <<x>>
  BY DEF Skip
<1>2. Skip(<<x>>, x) /\ ~Skip(<<x>>, y) /\ ~Skip(<<x, y>>, z)
  BY DEF Skip
<1>3. Append(<<x>>, y) = <<x, y>>
  <2>. DEFINE p == <<x>>
              q == <<x, y>>
              S == {x, y}
  <2>1. /\ p \in Seq(S) /\ Len(p) = 1 /\ p[1] = x /\ y \in S
        /\ q \in Seq(S) /\ Len(q) = 2 /\ q[1] = x /\ q[2] = y
    OBVIOUS
  <2>. HIDE DEF p, q, S
  <2>2. /\ Len(q) = Len(p) + 1 /\ q[Len(p) + 1] = y
        /\ \A i \in 1..Len(p) : q[i] = p[i]
    BY <2>1
  <2>3. Append(p, y) = q
    BY <2>1, <2>2, AppendIs
  <2>. QED BY <2>3 DEF p, q
<1>4. Append(<<x, y>>, z) = <<x, y, z>>
  <2>. DEFINE p == <<x, y>>
              q == <<x, y, z>>
              S == {x, y, z}
  <2>1. /\ p \in Seq(S) /\ Len(p) = 2 /\ p[1] = x /\ p[2] = y /\ z \in S
        /\ q \in Seq(S) /\ Len(q) = 3
        /\ q[1] = x /\ q[2] = y /\ q[3] = z
    OBVIOUS
  <2>. HIDE DEF p, q, S
  <2>2. /\ Len(q) = Len(p) + 1 /\ q[Len(p) + 1] = z
        /\ \A i \in 1..Len(p) : q[i] = p[i]
    BY <2>1
  <2>3. Append(p, z) = q
    BY <2>1, <2>2, AppendIs
  <2>. QED BY <2>3 DEF p, q
<1>. QED BY <1>1, <1>2, <1>3, <1>4

(* A rename within a directory locks the directory and then the two nodes  *)
(* in the order of their addresses: the four turns of the merge.           *)
LEMMA RenameInOrder ==
  ASSUME Treed, Rooted, NEW a \in Nodes, NEW c \in Nodes,
         NEW d \in Nodes \cup {NULL}, parent[c] = a, c # d,
         d # NULL => parent[d] = a /\ vtype[d] = vtype[c]
  PROVE  InOrder(LockFour(a, a, c, d))
<1>1. \A n \in Nodes : parent[n] # n
  <2>1. ASSUME NEW n \in Nodes PROVE parent[n] # n
    <3>1. {n} \in SUBSET Nodes /\ {n} # {}
      OBVIOUS
    <3>. QED BY <3>1 DEF Rooted
  <2>. QED BY <2>1
<1>2. /\ a # c /\ a # d /\ parent[c] # d
      /\ d # NULL => parent[d] # c
      /\ a # NULL /\ c # NULL /\ a # Sentinel /\ c # Sentinel /\ d # Sentinel
      /\ NULL # Sentinel
      /\ a \in Nat /\ c \in Nat /\ d \in Nat
  BY <1>1, NodesAre DEF NULL, Sentinel
<1>3. Sorted(a, a) = <<a, a, Sentinel>>
  BY DEF Sorted, IsOrdered
<1>4. CASE d = NULL
  <2>1. Sorted(c, d) = <<NULL, c, Sentinel>>
    BY <1>2, <1>4 DEF Sorted, IsOrdered
  <2>. DEFINE u == <<a, a, Sentinel>>
              v == <<NULL, c, Sentinel>>
              l0 == <<>>
              l1 == <<a>>
              l2 == <<a, c>>
              m0 == [i |-> 1, j |-> 1, list |-> l0]
              m1 == Merge(u, v, m0)
              m2 == Merge(u, v, m1)
              m3 == Merge(u, v, m2)
              m4 == Merge(u, v, m3)
  <2>2. /\ u[1] = a /\ u[2] = a /\ u[3] = Sentinel
        /\ v[1] = NULL /\ v[2] = c /\ v[3] = Sentinel
    OBVIOUS
  <2>3. /\ ~IsOrdered(a, NULL) /\ IsOrdered(a, c) /\ ~IsOrdered(Sentinel, c)
    BY <1>2 DEF IsOrdered
  <2>0. /\ Skip(l0, NULL) /\ ~Skip(l0, a) /\ Append(l0, a) = l1
        /\ Skip(l1, a) /\ ~Skip(l1, c) /\ Append(l1, c) = l2
    BY <1>2, SkipIs
  <2>4. LockFour(a, a, c, d) = m4.list
    BY <1>3, <2>1 DEF LockFour
  <2>5. m0.i = 1 /\ m0.j = 1 /\ m0.list = l0
    OBVIOUS
  <2>. HIDE DEF u, v, m0, m1, m2, m3, m4, l0, l1, l2
  <2>6. m1.i = 1 /\ m1.j = 2 /\ m1.list = l0
    <3>1. ~IsOrdered(u[m0.i], v[m0.j])
      BY <2>2, <2>3, <2>5
    <3>2. Taken(m0.list, v[m0.j]) = m0.list
      BY <2>2, <2>3, <2>0, <2>5 DEF Taken
    <3>3. m1.i = m0.i /\ m1.j = m0.j + 1 /\ m1.list = m0.list
      BY <3>1, <3>2 DEF m1, Merge
    <3>. QED BY <3>3, <2>5
  <2>7. m2.i = 2 /\ m2.j = 2 /\ m2.list = l1
    <3>1. IsOrdered(u[m1.i], v[m1.j])
      BY <2>2, <2>3, <2>6
    <3>2. Taken(m1.list, u[m1.i]) = l1
      BY <2>2, <2>3, <2>0, <2>6 DEF Taken
    <3>3. m2.i = m1.i + 1 /\ m2.j = m1.j /\ m2.list = l1
      BY <3>1, <3>2 DEF m2, Merge
    <3>. QED BY <3>3, <2>6
  <2>8. m3.i = 3 /\ m3.j = 2 /\ m3.list = l1
    <3>1. IsOrdered(u[m2.i], v[m2.j])
      BY <2>2, <2>3, <2>7
    <3>2. Taken(m2.list, u[m2.i]) = m2.list
      BY <2>2, <2>3, <2>0, <2>7 DEF Taken
    <3>3. m3.i = m2.i + 1 /\ m3.j = m2.j /\ m3.list = m2.list
      BY <3>1, <3>2 DEF m3, Merge
    <3>. QED BY <3>3, <2>7
  <2>9. m4.i = 3 /\ m4.j = 3 /\ m4.list = l2
    <3>1. ~IsOrdered(u[m3.i], v[m3.j])
      BY <2>2, <2>3, <2>8
    <3>2. Taken(m3.list, v[m3.j]) = l2
      BY <2>2, <2>3, <2>0, <2>8 DEF Taken
    <3>3. m4.i = m3.i /\ m4.j = m3.j + 1 /\ m4.list = l2
      BY <3>1, <3>2 DEF m4, Merge
    <3>. QED BY <3>3, <2>8
  <2>10. LockFour(a, a, c, d) = <<a, c>>
    BY <2>4, <2>9 DEF l2
  <2>. QED BY <2>10 DEF InOrder, Before
<1>5. CASE d # NULL
  <2>1. PICK x \in {c, d}, y \in {c, d} :
          x < y /\ Sorted(c, d) = <<x, y, Sentinel>>
    BY <1>2, <1>5 DEF Sorted, IsOrdered
  <2>2. /\ parent[x] = a /\ parent[y] = a /\ vtype[x] = vtype[y]
        /\ x # a /\ y # a /\ x # y /\ x # NULL /\ y # NULL
        /\ x # Sentinel /\ y # Sentinel
    BY <1>2, <1>5, <2>1
  <2>. DEFINE u == <<a, a, Sentinel>>
              v == <<x, y, Sentinel>>
              l0 == <<>>
              l1 == <<a>>
              l2 == <<a, x>>
              l3 == <<a, x, y>>
              m0 == [i |-> 1, j |-> 1, list |-> l0]
              m1 == Merge(u, v, m0)
              m2 == Merge(u, v, m1)
              m3 == Merge(u, v, m2)
              m4 == Merge(u, v, m3)
  <2>3. /\ u[1] = a /\ u[2] = a /\ u[3] = Sentinel
        /\ v[1] = x /\ v[2] = y /\ v[3] = Sentinel
    OBVIOUS
  <2>4. IsOrdered(a, x) /\ ~IsOrdered(Sentinel, x) /\ ~IsOrdered(Sentinel, y)
    BY <1>2, <2>2 DEF IsOrdered
  <2>0. /\ ~Skip(l0, a) /\ Append(l0, a) = l1
        /\ Skip(l1, a) /\ ~Skip(l1, x) /\ Append(l1, x) = l2
        /\ ~Skip(l2, y) /\ Append(l2, y) = l3
    BY <1>2, <2>2, SkipIs
  <2>5. LockFour(a, a, c, d) = m4.list
    BY <1>3, <2>1 DEF LockFour
  <2>6. m0.i = 1 /\ m0.j = 1 /\ m0.list = l0
    OBVIOUS
  <2>. HIDE DEF u, v, m0, m1, m2, m3, m4, l0, l1, l2, l3
  <2>7. m1.i = 2 /\ m1.j = 1 /\ m1.list = l1
    <3>1. IsOrdered(u[m0.i], v[m0.j])
      BY <2>3, <2>4, <2>6
    <3>2. Taken(m0.list, u[m0.i]) = l1
      BY <2>3, <2>4, <2>0, <2>6 DEF Taken
    <3>3. m1.i = m0.i + 1 /\ m1.j = m0.j /\ m1.list = l1
      BY <3>1, <3>2 DEF m1, Merge
    <3>. QED BY <3>3, <2>6
  <2>8. m2.i = 3 /\ m2.j = 1 /\ m2.list = l1
    <3>1. IsOrdered(u[m1.i], v[m1.j])
      BY <2>3, <2>4, <2>7
    <3>2. Taken(m1.list, u[m1.i]) = m1.list
      BY <2>3, <2>4, <2>0, <2>7 DEF Taken
    <3>3. m2.i = m1.i + 1 /\ m2.j = m1.j /\ m2.list = m1.list
      BY <3>1, <3>2 DEF m2, Merge
    <3>. QED BY <3>3, <2>7
  <2>9. m3.i = 3 /\ m3.j = 2 /\ m3.list = l2
    <3>1. ~IsOrdered(u[m2.i], v[m2.j])
      BY <2>3, <2>4, <2>8
    <3>2. Taken(m2.list, v[m2.j]) = l2
      BY <2>3, <2>4, <2>0, <2>8 DEF Taken
    <3>3. m3.i = m2.i /\ m3.j = m2.j + 1 /\ m3.list = l2
      BY <3>1, <3>2 DEF m3, Merge
    <3>. QED BY <3>3, <2>8
  <2>10. m4.i = 3 /\ m4.j = 3 /\ m4.list = l3
    <3>1. ~IsOrdered(u[m3.i], v[m3.j])
      BY <2>3, <2>4, <2>9
    <3>2. Taken(m3.list, v[m3.j]) = l3
      BY <2>3, <2>4, <2>0, <2>9 DEF Taken
    <3>3. m4.i = m3.i /\ m4.j = m3.j + 1 /\ m4.list = l3
      BY <3>1, <3>2 DEF m4, Merge
    <3>. QED BY <3>3, <2>9
  <2>11. LockFour(a, a, c, d) = <<a, x, y>>
    BY <2>5, <2>10 DEF l3
  <2>. QED BY <2>1, <2>2, <2>11 DEF InOrder, Before
<1>. QED BY <1>4, <1>5

-----------------------------------------------------------------------------
(* Every step keeps the order.                                             *)

(* Without hard links a node is only where it was looked up.               *)
LEMMA OrderInit ==
  ASSUME ~HardLinks
  PROVE  Init => OInv
<1>. SUFFICES ASSUME Init PROVE OInv
  OBVIOUS
<1>1. Rooted
  <2>1. ASSUME NEW S \in SUBSET Nodes, S # {}
        PROVE  \E n \in S : parent[n] \notin S
    <3>1. ~(\A n \in S : parent[n] \in S)
      BY <2>1 DEF Init
    <3>. QED BY <3>1
  <2>2. \A n \in Nodes : parent[n] \in Dirs \cup {NULL}
    BY DEF Init
  <2>. QED BY <2>1, <2>2 DEF Rooted
<1>2. NamesKept /\ RenamesWithin /\ LockedInOrder
  BY DEF Init, NamesKept, RenamesWithin, LockedInOrder
<1>. QED BY <1>1, <1>2 DEF OInv

(* Rooted is about the tree.                                               *)
LEMMA SameTree ==
  ASSUME UNCHANGED tree
  PROVE  Rooted' = Rooted
  BY DEF tree, Rooted, Dirs

(* An operation may enter with a list that is in order.                    *)
LEMMA EnterInOrder ==
  ASSUME IInv, OInv, NEW th \in Threads, NEW s, Enter(th, s),
         InOrder(LockList(s)), Len(s) = 4 => s[1] = s[2]
  PROVE  OInv'
<1>1. UNCHANGED tree /\ UNCHANGED links
  BY DEF Enter
<1>2. Rooted' /\ NamesKept' /\ RenamesWithin'
  BY <1>1, SameTree
  DEF OInv, NamesKept, RenamesWithin, Enter, tree, IInv, Typed
<1>3. LockedInOrder'
  <2>1. InOrder(list[th])'
    <3>1. list'[th] = LockList(s)
      BY DEF Enter, IInv, Typed
    <3>. QED BY <1>1, <3>1 DEF InOrder, Before, tree
  <2>2. ASSUME NEW t \in Threads, t # th, pc'[t] = "lock"
        PROVE  InOrder(list[t])'
    <3>1. list'[t] = list[t] /\ pc[t] = "lock"
      BY <2>2 DEF Enter, IInv, Typed
    <3>2. InOrder(list[t])
      BY <3>1 DEF OInv, LockedInOrder
    <3>. QED BY <1>1, <3>1, <3>2 DEF InOrder, Before, tree
  <2>. QED BY <2>1, <2>2 DEF LockedInOrder
<1>. QED BY <1>2, <1>3 DEF OInv

(* Every step keeps the order, as nothing moves to another directory.      *)
LEMMA OrderStep ==
  ASSUME ~CrossDirectory, IInv, OInv, [Next]_vars
  PROVE  OInv'
<1>1. ASSUME NEW th \in Threads, Unnoded(th) PROVE OInv'
  BY <1>1, EnterInOrder DEF Unnoded, LockList, InOrder
<1>2. ASSUME NEW th \in Threads, Single(th) PROVE OInv'
  <2>1. PICK n \in Nodes : Enter(th, <<n>>)
    BY <1>2 DEF Single
  <2>2. InOrder(LockList(<<n>>))
    BY DEF LockList, InOrder
  <2>. QED BY <2>1, <2>2, EnterInOrder
<1>3. ASSUME NEW th \in Threads, Exchange(th) PROVE OInv'
  <2>1. PICK f \in Nodes \ Dirs, t \in Nodes \ Dirs :
          f # t /\ Enter(th, <<f, t>>)
    BY <1>3 DEF Exchange
  <2>2. vtype[f] = "VREG" /\ vtype[t] = "VREG" /\ f \in Nat /\ t \in Nat
    BY NodesAre DEF IInv, Treed, Dirs
  <2>3. LockList(<<f, t>>) = IF f < t THEN <<f, t>> ELSE <<t, f>>
    BY <2>1, <2>2 DEF LockList, LockPair
  <2>4. InOrder(LockList(<<f, t>>))
    BY <2>1, <2>2, <2>3 DEF InOrder, Before
  <2>. QED BY <2>1, <2>4, EnterInOrder
<1>4. ASSUME NEW th \in Threads, Rename(th) PROVE OInv'
  <2>1. PICK a \in Dirs, c \in Nodes, d \in Nodes \cup {NULL} :
          /\ a \in links[c]
          /\ d # NULL => a \in links[d] /\ vtype[d] = vtype[c]
          /\ d # c /\ Enter(th, <<a, a, c, d>>)
    BY <1>4 DEF Rename
  <2>2. parent[c] = a /\ (d # NULL => parent[d] = a)
    BY <2>1 DEF OInv, NamesKept
  <2>3. InOrder(LockFour(a, a, c, d))
    BY <2>1, <2>2, RenameInOrder DEF Dirs, IInv, OInv
  <2>4. LockList(<<a, a, c, d>>) = LockFour(a, a, c, d)
    BY DEF LockList
  <2>. QED BY <2>1, <2>3, <2>4, EnterInOrder
<1>5. ASSUME NEW th \in Threads, Run(th) PROVE OInv'
  <2>1. Rooted' /\ RenamesWithin'
    BY <1>5, SameTree DEF Run, OInv, RenamesWithin
  <2>2. NamesKept'
    <3>1. CASE UNCHANGED links
      BY <1>5, <3>1 DEF Run, OInv, NamesKept, tree
    <3>2. CASE Len(args[th]) = 4 /\ Renamed(args[th])
      <4>1. args[th][1] = args[th][2]
        BY <3>2 DEF OInv, RenamesWithin
      <4>2. \A n \in Nodes : links'[n] \subseteq links[n]
        BY <3>2, <4>1 DEF Renamed
      <4>. QED BY <1>5, <4>2 DEF Run, OInv, NamesKept, tree
    <3>. QED BY <1>5, <3>1, <3>2 DEF Run
  <2>3. LockedInOrder'
    BY <1>5 DEF Run, tree, IInv, Typed, OInv, LockedInOrder, InOrder, Before
  <2>. QED BY <2>1, <2>2, <2>3 DEF OInv
<1>6. ASSUME NEW th \in Threads,
             Lock(th) \/ TakeBiglock(th) \/ RetakeBiglock(th) \/ Unlock(th)
               \/ DropBiglock(th)
      PROVE  OInv'
  <2>1. /\ UNCHANGED <<tree, links, args, list>>
        /\ \A t \in Threads : pc'[t] = "lock" => pc[t] = "lock"
    BY <1>6 DEF Lock, TakeBiglock, RetakeBiglock, Unlock, DropBiglock, IInv,
                Typed
  <2>2. Rooted' /\ NamesKept' /\ RenamesWithin'
    BY <2>1, SameTree DEF OInv, NamesKept, RenamesWithin, tree
  <2>3. LockedInOrder'
    BY <2>1 DEF OInv, LockedInOrder, InOrder, Before, tree
  <2>. QED BY <2>2, <2>3 DEF OInv
<1>7. ASSUME NEW th \in Threads, Leave(th) PROVE OInv'
  <2>1. /\ UNCHANGED <<tree, links>>
        /\ \A t \in Threads : \/ t = th /\ pc'[t] = "idle" /\ args'[t] = <<>>
                              \/ UNCHANGED <<pc[t], args[t], list[t]>>
    BY <1>7 DEF Leave, IInv, Typed
  <2>2. Rooted' /\ NamesKept'
    BY <2>1, SameTree DEF OInv, NamesKept, tree
  <2>3. RenamesWithin'
    BY <2>1 DEF OInv, RenamesWithin
  <2>4. LockedInOrder'
    BY <2>1 DEF OInv, LockedInOrder, InOrder, Before, tree
  <2>. QED BY <2>2, <2>3, <2>4 DEF OInv
<1>8. CASE UNCHANGED vars
  <2>1. UNCHANGED <<tree, links, pc, args, list>>
    BY <1>8 DEF vars, tree
  <2>2. Rooted' /\ NamesKept' /\ RenamesWithin'
    BY <2>1, SameTree DEF OInv, NamesKept, RenamesWithin, tree
  <2>3. LockedInOrder'
    BY <2>1 DEF OInv, LockedInOrder, InOrder, Before, tree
  <2>. QED BY <2>2, <2>3 DEF OInv
<1>. QED BY <1>1, <1>2, <1>3, <1>4, <1>5, <1>6, <1>7, <1>8 DEF Next, Advance

(* If every list is in order, the node a thread waits for comes before the *)
(* one its owner waits for: a circle of threads would be a circle of       *)
(* nodes.                                                                  *)
LEMMA OrderSuffices == IInv /\ OInv => NoLockCycle
<1>. SUFFICES ASSUME IInv, OInv, NEW S \in SUBSET Threads, S # {},
                    \A th \in S : Wanting(th) /\ owner[Now(th)] \cap S # {}
             PROVE  FALSE
  BY DEF NoLockCycle
<1>. DEFINE W == {Now(th) : th \in S}
<1>1. ASSUME NEW th \in S
      PROVE  /\ pc[th] = "lock" /\ list[th] \in Seq(Nodes) /\ at[th] \in Nat
             /\ at[th] < Len(list[th]) /\ Now(th) = list[th][at[th] + 1]
             /\ Now(th) \in Nodes
  <2>1. Wanting(th) /\ OnTheWay(th) /\ at[th] \in Nat
    BY <1>1 DEF IInv, Typed, Listed
  <2>2. list[th] \in Seq(Nodes) /\ at[th] < Len(list[th]) /\ pc[th] = "lock"
    BY <2>1 DEF Wanting, OnTheWay
  <2>. QED BY <2>1, <2>2 DEF Now
<1>2. W \in SUBSET Nodes /\ W # {}
  BY <1>1
<1>3. ASSUME NEW th \in S
      PROVE  \E t \in S : Before(Now(th), Now(t))
  <2>1. PICK t \in S : t \in owner[Now(th)]
    OBVIOUS
  <2>2. Now(th) \in Held(t)
    BY <1>1, <2>1 DEF IInv, LocksAccountedFor
  <2>3. PICK i \in 1..at[t] : Now(th) = list[t][i]
    BY <1>1, <2>2 DEF Held
  <2>4. InOrder(list[t])
    BY <1>1 DEF OInv, LockedInOrder
  <2>5. /\ i \in 1..Len(list[t]) /\ at[t] + 1 \in 1..Len(list[t])
        /\ i < at[t] + 1 /\ Now(t) = list[t][at[t] + 1]
    BY <1>1
  <2>6. Before(Now(th), Now(t))
    BY <2>3, <2>4, <2>5 DEF InOrder
  <2>. QED BY <2>6
<1>4. \A w \in W : \E n \in W : Before(w, n)
  BY <1>3
<1>. HIDE DEF W
<1>. QED BY <1>2, <1>4, BeforeHasNoCircle DEF IInv, OInv

(* Without renames across directories and without hard links, any number   *)
(* of operations on one, two and four nodes wait for each other's locks in *)
(* no circle.                                                              *)
THEOREM LocksHaveNoCycle ==
  ASSUME ~CrossDirectory, ~HardLinks
  PROVE  Spec => []NoLockCycle
<1>1. Init => OInv
  BY OrderInit
<1>2. IInv /\ OInv /\ [Next]_vars => OInv'
  BY OrderStep
<1>3. IInv /\ OInv => NoLockCycle
  BY OrderSuffices
<1>. QED BY <1>1, <1>2, <1>3, InvariantInit, InvariantStep, PTL DEF Spec
=============================================================================
