------------------------- MODULE InodeManager_proofs ------------------------
(***************************************************************************)
(* Proofs about InodeManager.  RootInv is inductive for any mounts;        *)
(* SoleInv adds, while mounts do not overlap, that the counter of the open *)
(* one is above the table and above everything it has answered, which is   *)
(* why it never conflicts and never gives an inode away twice; SharedInv,  *)
(* while nothing is removed, that every answer is still in the table.      *)
(***************************************************************************)
EXTENDS InodeManager, TLAPS

USE ConstantsAssumption DEF FUSE_ROOT_INODE, Ids

\* The initial states satisfy the invariants.
LEMMA InitInv == Init => SoleInv
<1> SUFFICES ASSUME Init PROVE SoleInv
  OBVIOUS
<1>0. conflict \in [Managers -> BOOLEAN] /\ shared \in BOOLEAN
  BY Zenon DEF Init
<1>1. RootInv
  <2>1. TypeOK
    BY <1>0 DEF Init, TypeOK
  <2> QED BY <2>1 DEF Init, RootInv, RootIsOne
<1>2. NoConflict /\ AnswersStay
  BY DEF Init, NoConflict, AnswersStay
<1>3. \A m \in Managers : pc[m] = "closed"
  BY DEF Init
<1> QED BY <1>1, <1>2, <1>3 DEF SoleInv, Sole

\* Every step keeps the types.
LEMMA NextType == ASSUME RootInv, [Next]_vars PROVE TypeOK'
<1>0. TypeOK /\ \A m \in Managers : Insert(m) => want[m] \in Files
  BY DEF RootInv, TypeOK, Insert
<1> USE <1>0 DEF history, Goto, insert_inode
<1>1. ASSUME NEW m \in Managers, Open(m) PROVE TypeOK'
  <2>1. next' \in [Managers -> Nat]
    BY <1>1 DEF Open, TypeOK
  <2>2. conflict' \in [Managers -> BOOLEAN]
    BY <1>1, Zenon DEF Open, TypeOK
  <2>3. shared' \in BOOLEAN
    BY <1>1, Zenon DEF Open, TypeOK
  <2> QED BY <1>1, <2>1, <2>2, <2>3 DEF Open, TypeOK
<1>2. ASSUME NEW m \in Managers, FindRoot(m) PROVE TypeOK'
  BY <1>2 DEF FindRoot, TypeOK
<1>3. ASSUME NEW m \in Managers, InsertRoot(m) PROVE TypeOK'
  <2>1. conflict' \in [Managers -> BOOLEAN]
    BY <1>3, Zenon DEF InsertRoot, TypeOK
  <2> QED BY <1>3, <2>1 DEF InsertRoot, TypeOK
<1>4. ASSUME NEW m \in Managers, NEW f \in Files, Lookup(m, f) PROVE TypeOK'
  <2>1. conflict' \in [Managers -> BOOLEAN]
    BY <1>4, Zenon DEF Lookup, TypeOK
  <2>2. <<inodes[f], f>> \in Nat \X Ids
    BY DEF TypeOK
  <2> QED BY <1>4, <2>1, <2>2 DEF Lookup, TypeOK
<1>5. ASSUME NEW m \in Managers, Insert(m), want[m] \in Files PROVE TypeOK'
  <2>1. conflict' \in [Managers -> BOOLEAN]
    BY <1>5, Zenon DEF Insert, TypeOK
  <2>2. <<next[m], want[m]>> \in Nat \X Ids
    BY <1>5 DEF TypeOK
  <2>3. told' \in [Managers -> SUBSET (Nat \X Ids)]
    <3>1. told'[m] \subseteq Nat \X Ids /\ (told' = told \/ told' = [told EXCEPT ![m] = told'[m]])
      BY <1>5, <2>2 DEF Insert, TypeOK
    <3> QED BY <3>1 DEF TypeOK
  <2>4. inodes' \in [Ids -> Nat] /\ next' \in [Managers -> Nat]
    BY <1>5 DEF Insert, TypeOK
  <2> QED BY <1>5, <2>1, <2>3, <2>4 DEF Insert, TypeOK
<1>6. ASSUME NEW m \in Managers, NEW f \in Files, Remove(m, f) PROVE TypeOK'
  <2>1. conflict' \in [Managers -> BOOLEAN]
    BY <1>6, Zenon DEF Remove, TypeOK
  <2> QED BY <1>6, <2>1 DEF Remove, TypeOK
<1>7. ASSUME NEW m \in Managers, Close(m) PROVE TypeOK'
  BY <1>7 DEF Close, TypeOK
<1>8. CASE UNCHANGED vars
  BY <1>8 DEF vars, TypeOK
<1> QED BY <1>1, <1>2, <1>3, <1>4, <1>5, <1>6, <1>7, <1>8 DEF Next

\* RootInv is inductive: counters never come down to the root's inode, and the
\* root is only ever inserted with it.
LEMMA RootStep == RootInv /\ [Next]_vars => RootInv'
<1> SUFFICES ASSUME RootInv, [Next]_vars PROVE RootInv'
  OBVIOUS
<1>0. TypeOK /\ TypeOK'
  BY NextType DEF RootInv
<1> USE DEF history, Goto, insert_inode
<1> DEFINE Rest ==
      /\ RootIsOne
      /\ \A m \in Managers :
           /\ pc[m] # "closed" => next[m] > FUSE_ROOT_INODE
           /\ pc[m] = "insert" <=> want[m] # NoFile
      /\ inodes[Root] \in {0, FUSE_ROOT_INODE}
      /\ \A f, g \in Ids : (inodes[f] = inodes[g] /\ inodes[f] # 0) => f = g
<1>1. ASSUME NEW m \in Managers, Open(m) PROVE Rest'
  BY <1>0, <1>1 DEF Open, RootInv, RootIsOne, TypeOK
<1>2. ASSUME NEW m \in Managers, FindRoot(m) PROVE Rest'
  BY <1>0, <1>2 DEF FindRoot, RootInv, RootIsOne, TypeOK
<1>3. ASSUME NEW m \in Managers, InsertRoot(m) PROVE Rest'
  BY <1>0, <1>3 DEF InsertRoot, RootInv, RootIsOne, TypeOK, Conflicts
<1>4. ASSUME NEW m \in Managers, NEW f \in Files, Lookup(m, f) PROVE Rest'
  BY <1>0, <1>4 DEF Lookup, RootInv, RootIsOne, TypeOK
<1>5. ASSUME NEW m \in Managers, Insert(m) PROVE Rest'
  BY <1>0, <1>5 DEF Insert, RootInv, RootIsOne, TypeOK, Conflicts
<1>6. ASSUME NEW m \in Managers, NEW f \in Files, Remove(m, f) PROVE Rest'
  BY <1>0, <1>6 DEF Remove, RootInv, RootIsOne, TypeOK
<1>7. ASSUME NEW m \in Managers, Close(m) PROVE Rest'
  BY <1>0, <1>7 DEF Close, RootInv, RootIsOne, TypeOK
<1>8. ASSUME UNCHANGED vars PROVE Rest'
  BY <1>8 DEF vars, RootInv, RootIsOne
<1>9. Rest'
  BY <1>1, <1>2, <1>3, <1>4, <1>5, <1>6, <1>7, <1>8 DEF Next, RootInv
<1> QED BY <1>0, <1>9 DEF RootInv

\* Every reachable state is well typed.
THEOREM TypeCorrect == Spec => []TypeOK
<1>1. Init => RootInv
  BY InitInv DEF SoleInv
<1>2. RootInv => TypeOK
  BY DEF RootInv
<1> QED BY <1>1, <1>2, RootStep, PTL DEF Spec

\* Inode 1 is the root's alone, whatever mounts share the database.
THEOREM RootSafety == Spec => []RootIsOne
<1>1. Init => RootInv
  BY InitInv DEF SoleInv
<1>2. RootInv => RootIsOne
  BY DEF RootInv
<1> QED BY <1>1, <1>2, RootStep, PTL DEF Spec

-----------------------------------------------------------------------------
\* SoleInv is inductive: while mounts do not overlap, only one of them can act.
LEMMA SoleStep == SoleInv /\ [Next]_vars => SoleInv'
<1> SUFFICES ASSUME SoleInv, [Next]_vars, ~ shared' PROVE Sole'
  BY RootStep DEF SoleInv
<1>0. TypeOK /\ TypeOK' /\ RootInv /\ RootInv'
  BY NextType, RootStep DEF RootInv, SoleInv
<1> USE DEF history, Goto, insert_inode
<1>s. ~ shared
  BY Zenon DEF Next, vars, Open, FindRoot, InsertRoot, Lookup, Insert, Remove, Close
<1>S. Sole
  BY <1>s DEF SoleInv
<1> DEFINE Acts(k) == \/ Open(k) \/ FindRoot(k) \/ InsertRoot(k) \/ Insert(k) \/ Close(k)
                      \/ \E f \in Files : Lookup(k, f) \/ Remove(k, f)
<1>o. ASSUME NEW k \in Managers, Acts(k), NEW n \in Managers, n # k
      PROVE  pc[n] = "closed" /\ pc'[n] = "closed" /\ conflict'[n] = conflict[n]
  <2>1. pc'[n] = pc[n] /\ conflict'[n] = conflict[n]
    BY <1>0, <1>o DEF Open, FindRoot, InsertRoot, Lookup, Insert, Remove, Close, TypeOK
  <2>2. CASE Open(k)
    BY <1>o, <2>2, <2>1, Zenon DEF Open
  <2>3. CASE ~ Open(k)
    <3>1. pc[k] # "closed"
      BY <1>o, <2>3 DEF FindRoot, InsertRoot, Lookup, Insert, Remove, Close
    <3> QED BY <1>S, <1>o, <2>1, <3>1 DEF Sole
  <2> QED BY <2>2, <2>3
<1>p. \A m, n \in Managers : pc'[m] # "closed" /\ pc'[n] # "closed" => m = n
  <2>1. ASSUME NEW k \in Managers, Acts(k)
        PROVE  \A m, n \in Managers : pc'[m] # "closed" /\ pc'[n] # "closed" => m = n
    BY <1>o, <2>1
  <2>2. CASE UNCHANGED vars
    BY <1>S, <2>2 DEF vars, Sole
  <2> QED BY <2>1, <2>2 DEF Next
<1> DEFINE Above(m) == pc[m] # "closed" =>
             /\ \A f \in Ids : inodes[f] < next[m]
             /\ \A a \in told[m] : 0 < a[1] /\ a[1] < next[m]
             /\ pc[m] = "insert" => inodes[want[m]] = 0
             /\ pc[m] = "rootInsert" => inodes[Root] = 0
             /\ pc[m] \in {"root", "rootInsert"} => told[m] = {}
           Stays(m) == pc[m] # "closed" =>
             \A a \in told[m], g \in Ids : inodes[g] = a[1] => g = a[2]
           Rest(m) == ~ conflict[m] /\ Above(m) /\ Stays(m)
<1>a. \A m \in Managers : Rest(m)
  BY <1>S, <1>s DEF Sole, NoConflict, AnswersStay
<1> SUFFICES ASSUME NEW m \in Managers PROVE Rest(m)'
  BY <1>p DEF Sole, NoConflict, AnswersStay
<1>c. /\ told[m] \subseteq Nat \X Ids
      /\ \A f \in Ids : inodes[f] \in Nat
      /\ next[m] \in Nat
  BY <1>0 DEF TypeOK
<1>1. CASE Open(m)
  <2>1. told'[m] = {} /\ ~ conflict'[m] /\ pc'[m] = "root" /\ inodes' = inodes
    BY <1>0, <1>1 DEF Open, TypeOK
  <2>2. \A f \in Ids : inodes[f] < next'[m]
    BY <1>0, <1>1, <1>c DEF Open, TypeOK, get_max_inode
  <2> QED BY <2>1, <2>2
<1>2. CASE FindRoot(m)
  <2>1. UNCHANGED <<told, conflict, inodes, next>> /\ pc[m] # "closed"
        /\ pc'[m] \in {"ready", "rootInsert"} /\ (pc'[m] = "rootInsert" => inodes[Root] = 0)
    BY <1>0, <1>2 DEF FindRoot, TypeOK
  <2>2. ~ conflict'[m] /\ told[m] = {} /\ \A f \in Ids : inodes[f] < next[m]
    BY <1>2, <1>a, <2>1 DEF FindRoot
  <2> QED BY <2>1, <2>2
<1>3. CASE InsertRoot(m)
  <2>1. ~ Conflicts(1, Root)
    BY <1>0, <1>3, <1>a DEF InsertRoot, Conflicts, RootInv, RootIsOne
  <2>2. /\ UNCHANGED <<told, conflict, next>> /\ pc[m] # "closed" /\ pc'[m] = "ready"
        /\ inodes' = [inodes EXCEPT ![Root] = 1]
    BY <1>0, <1>3, <2>1 DEF InsertRoot, TypeOK
  <2>3. /\ inodes'[Root] = 1
        /\ \A f \in Files : inodes'[f] = inodes[f]
    BY <1>0, <2>2 DEF TypeOK
  <2>4. next[m] > 1
    BY <1>0, <2>2 DEF RootInv
  <2>5. Above(m)'
    BY <1>a, <1>c, <2>2, <2>3, <2>4
  <2>6. ~ conflict'[m]
    BY <1>a, <2>2
  <2>7. told'[m] = {}
    BY <1>3, <1>a, <2>2 DEF InsertRoot
  <2> QED BY <2>5, <2>6, <2>7
<1>4. ASSUME NEW f \in Files, Lookup(m, f) PROVE Rest(m)'
  <2>1. UNCHANGED <<inodes, next>> /\ pc[m] = "ready"
    BY <1>4 DEF Lookup
  <2>2. ~ conflict'[m]
    BY <1>0, <1>4 DEF Lookup, TypeOK
  <2>3. CASE inodes[f] # 0
    <3>1. pc' = pc /\ told'[m] = told[m] \cup {<<inodes[f], f>>}
      BY <1>0, <1>4, <2>3 DEF Lookup, TypeOK
    <3>2. Above(m)'
      <4>1. 0 < inodes[f] /\ inodes[f] < next[m]
        BY <1>a, <1>c, <2>1, <2>3
      <4>2. \A a \in told'[m] : 0 < a[1] /\ a[1] < next[m]
        BY <1>a, <2>1, <3>1, <4>1
      <4> QED BY <1>a, <2>1, <3>1, <4>2
    <3>3. \A g \in Ids : inodes[g] = inodes[f] => g = f
      BY <1>0, <2>3 DEF RootInv
    <3> QED BY <1>a, <2>1, <2>2, <3>1, <3>2, <3>3
  <2>4. CASE inodes[f] = 0
    <3>1. pc'[m] = "insert" /\ told' = told /\ want'[m] = f
      BY <1>0, <1>4, <2>4 DEF Lookup, TypeOK
    <3> QED BY <1>a, <2>1, <2>2, <2>4, <3>1
  <2> QED BY <2>3, <2>4
<1>5. CASE Insert(m)
  BY <1>0, <1>5, <1>a, <1>c DEF Insert, Conflicts, RootInv, TypeOK
<1>6. ASSUME NEW f \in Files, Remove(m, f) PROVE Rest(m)'
  <2>1. UNCHANGED <<pc, next, told>> /\ pc[m] = "ready"
    BY <1>6 DEF Remove
  <2>2. ~ conflict'[m]
    BY <1>0, <1>6 DEF Remove, TypeOK
  <2>3. inodes'[f] = 0 /\ \A g \in Ids \ {f} : inodes'[g] = inodes[g]
    BY <1>0, <1>6 DEF Remove, TypeOK
  <2> QED BY <1>a, <1>c, <2>1, <2>2, <2>3
<1>7. CASE Close(m)
  BY <1>0, <1>7, <1>a DEF Close, TypeOK
<1>8. CASE UNCHANGED vars
  BY <1>8, <1>a DEF vars
<1>9. ASSUME NEW k \in Managers, Acts(k), k # m PROVE Rest(m)'
  BY <1>a, <1>o, <1>9
<1>10. CASE Acts(m)
  BY <1>1, <1>2, <1>3, <1>4, <1>5, <1>6, <1>7, <1>10
<1> QED BY <1>8, <1>9, <1>10 DEF Next

\* Mounts that do not overlap never meet a conflict, across removals, restarts
\* and crashes.
THEOREM ConflictSafety == Spec => []NoConflict
<1>1. SoleInv => NoConflict
  BY DEF SoleInv, Sole, NoConflict
<1> QED BY InitInv, SoleStep, <1>1, PTL DEF Spec

-----------------------------------------------------------------------------
\* SharedInv is inductive: without removals no row goes away.
LEMMA SharedStep == SharedInv /\ [Next]_vars => SharedInv'
<1> SUFFICES ASSUME SharedInv, [Next]_vars PROVE SharedInv'
  OBVIOUS
<1>0. TypeOK /\ TypeOK' /\ RootInv /\ RootInv'
  BY NextType, RootStep DEF RootInv, SharedInv
<1> USE DEF history, Goto, insert_inode
<1> SUFFICES ASSUME removes' = 0
             PROVE  \A m \in Managers : \A a \in told'[m] : a[1] # 0 /\ inodes'[a[2]] = a[1]
  BY <1>0 DEF SharedInv
<1>r. removes = 0 /\ \A m \in Managers, f \in Files : ~ Remove(m, f)
  BY <1>0 DEF Next, vars, Open, FindRoot, InsertRoot, Lookup, Insert, Remove, Close, TypeOK
<1>1. \A f \in Ids : inodes[f] # 0 => inodes'[f] = inodes[f]
  <2>1. ASSUME NEW m \in Managers, InsertRoot(m) \/ Insert(m)
        PROVE  \A f \in Ids : inodes[f] # 0 => inodes'[f] = inodes[f]
    BY <1>0, <2>1 DEF InsertRoot, Insert, Conflicts, TypeOK
  <2>2. CASE UNCHANGED inodes
    BY <2>2
  <2> QED BY <1>r, <2>1, <2>2 DEF Next, vars, Open, FindRoot, Lookup, Close
<1>2. ASSUME NEW m \in Managers, NEW a \in told'[m]
      PROVE  a[1] # 0 /\ inodes'[a[2]] = a[1]
  <2>1. CASE a \in told[m]
    <3>1. a[2] \in Ids /\ a[1] # 0 /\ inodes[a[2]] = a[1]
      BY <1>0, <1>r, <2>1 DEF SharedInv, TypeOK
    <3> QED BY <1>1, <3>1
  <2>2. ASSUME a \notin told[m], NEW n \in Managers, NEW f \in Files, Lookup(n, f)
        PROVE  a[1] # 0 /\ inodes'[a[2]] = a[1]
    <3>1. n = m /\ inodes[f] # 0 /\ a \in told[m] \cup {<<inodes[f], f>>} /\ inodes' = inodes
      BY <1>0, <1>2, <2>2 DEF Lookup, TypeOK
    <3> QED BY <2>2, <3>1
  <2>3. ASSUME a \notin told[m], NEW n \in Managers, Insert(n)
        PROVE  a[1] # 0 /\ inodes'[a[2]] = a[1]
    <3>1. /\ n = m /\ a \in told[m] \cup {<<next[m], want[m]>>}
          /\ inodes' = [inodes EXCEPT ![want[m]] = next[m]]
      BY <1>0, <1>2, <2>3 DEF Insert, TypeOK
    <3>2. want[m] \in Ids /\ next[m] > 1
      BY <1>0, <2>3, <3>1 DEF Insert, RootInv, TypeOK
    <3> QED BY <1>0, <2>3, <3>1, <3>2 DEF TypeOK
  <2>4. CASE told' = told
    BY <1>2, <2>1, <2>4
  <2>5. ASSUME NEW n \in Managers, Open(n) PROVE a \in told[m]
    BY <1>0, <1>2, <2>5 DEF Open, TypeOK
  <2> QED BY <2>1, <2>2, <2>3, <2>4, <2>5 DEF Next, vars, FindRoot, InsertRoot, Remove, Close
<1> QED BY <1>2

\* Answers stay: of mounts that overlap as long as nothing is removed, however
\* their statements interleave, and of mounts one after the other in any case.
THEOREM AnswerSafety == Spec => []AnswersStay
<1>1. Init => SharedInv
  BY InitInv DEF Init, SharedInv, SoleInv
<1>2. SharedInv /\ SoleInv => AnswersStay
  <2> SUFFICES ASSUME SharedInv, SoleInv, removes = 0, NEW m \in Managers,
                      NEW a \in told[m], NEW g \in Ids, inodes[g] = a[1]
               PROVE  g = a[2]
    BY DEF AnswersStay, SoleInv, Sole
  <2>1. a[2] \in Ids
    BY DEF SharedInv, RootInv, TypeOK
  <2> QED BY <2>1 DEF SharedInv, RootInv
<1> QED BY InitInv, SoleStep, SharedStep, <1>1, <1>2, PTL DEF Spec
=============================================================================
