---------------------------- MODULE InodeManager ----------------------------
(***************************************************************************)
(* The inode numbers of cloudsync-vfs (inode.rs) in the table vfs_inodes   *)
(* of cloudsync-db (vfs_inodes.rs): mounts that share one database, each   *)
(* with a counter of its own that it starts above the greatest inode in    *)
(* the table.  A mount holds the mutex of its connection for a whole call; *)
(* mounts with connections of their own interleave at every statement.     *)
(***************************************************************************)
EXTENDS Integers

CONSTANTS Managers,     \* mounts, each with an InodeManager
          Files,        \* provider file ids, ROOT_FILE_ID apart
          Root,         \* ROOT_FILE_ID
          NoFile,       \* no call in progress
          MaxOpens,     \* bound: how often InodeManager::new is called
          MaxRemoves,   \* bound: calls of remove
          MaxInode      \* bound: the counters

ASSUME ConstantsAssumption ==
    /\ Root \notin Files
    /\ NoFile \notin Files \cup {Root}
    /\ MaxOpens \in Nat
    /\ MaxRemoves \in Nat
    /\ MaxInode \in Nat

VARIABLES
    inodes,     \* the table: the inode of each file; 0: no row
    pc,         \* where each manager is
    next,       \* next_inode of each manager
    want,       \* the file whose row the manager has not found
    opens, removes,
    \* history variables, read by properties only:
    told,       \* per manager, the <<inode, file>> it answered since it was opened
    conflict,   \* per manager, whether its last call ended with DbError::Conflict
    shared      \* two managers have been open at the same time

history == <<told, conflict, shared>>
vars == <<inodes, pc, next, want, opens, removes, history>>

Ids == Files \cup {Root}

FUSE_ROOT_INODE == 1

TypeOK ==
    /\ inodes \in [Ids -> Nat]
    /\ pc \in [Managers -> {"closed", "root", "rootInsert", "ready", "insert"}]
    /\ next \in [Managers -> Nat]
    /\ want \in [Managers -> Files \cup {NoFile}]
    /\ opens \in Nat
    /\ removes \in Nat
    /\ told \in [Managers -> SUBSET (Nat \X Ids)]
    /\ conflict \in [Managers -> BOOLEAN]
    /\ shared \in BOOLEAN

Init ==
    /\ inodes = [f \in Ids |-> 0]
    /\ pc = [m \in Managers |-> "closed"]
    /\ next = [m \in Managers |-> 0]
    /\ want = [m \in Managers |-> NoFile]
    /\ opens = 0
    /\ removes = 0
    /\ told = [m \in Managers |-> {}]
    /\ conflict = [m \in Managers |-> FALSE]
    /\ shared = FALSE

-----------------------------------------------------------------------------
(* Statements on the table.                                                *)

\* SELECT MAX(inode), 0 for an empty table: the answer is i.
get_max_inode(i) == i \in {inodes[f] : f \in Ids} /\ \A f \in Ids : inodes[f] <= i

\* INSERT: both columns are unique.
Conflicts(i, f) == inodes[f] # 0 \/ \E g \in Ids : inodes[g] = i

insert_inode(i, f) == inodes' = [inodes EXCEPT ![f] = i]

Goto(m, l) == pc' = [pc EXCEPT ![m] = l]

-----------------------------------------------------------------------------
(* The manager m.                                                          *)

\* Mutant of Open: it begins with the greatest inode in use.
OpenAtMax(m) ==
    /\ pc[m] = "closed"
    /\ opens < MaxOpens
    /\ opens' = opens + 1
    /\ \E i \in {inodes[f] : f \in Ids} :
         /\ get_max_inode(i)
         /\ next' = [next EXCEPT ![m] = IF i = 0 THEN FUSE_ROOT_INODE + 1 ELSE i]
    /\ told' = [told EXCEPT ![m] = {}]
    /\ conflict' = [conflict EXCEPT ![m] = FALSE]
    /\ shared' = (shared \/ \E n \in Managers \ {m} : pc[n] # "closed")
    /\ Goto(m, "root")
    /\ UNCHANGED <<inodes, want, removes>>

\* new: restore the counter.
Open(m) ==
    /\ pc[m] = "closed"
    /\ opens < MaxOpens
    /\ opens' = opens + 1
    /\ \E i \in {inodes[f] : f \in Ids} :
         /\ get_max_inode(i)
         /\ next' = [next EXCEPT ![m] = IF i = 0 THEN FUSE_ROOT_INODE + 1 ELSE i + 1]
    /\ told' = [told EXCEPT ![m] = {}]
    /\ conflict' = [conflict EXCEPT ![m] = FALSE]
    /\ shared' = (shared \/ \E n \in Managers \ {m} : pc[n] # "closed")
    /\ Goto(m, "root")
    /\ UNCHANGED <<inodes, want, removes>>

\* new: get_or_insert_inode(ROOT_FILE_ID), the SELECT.
FindRoot(m) ==
    /\ pc[m] = "root"
    /\ Goto(m, IF inodes[Root] # 0 THEN "ready" ELSE "rootInsert")
    /\ UNCHANGED <<inodes, next, want, opens, removes, history>>

\* new: ... and the INSERT; if it conflicts, new fails.
InsertRoot(m) ==
    /\ pc[m] = "rootInsert"
    /\ \/ /\ ~ Conflicts(FUSE_ROOT_INODE, Root)
          /\ insert_inode(FUSE_ROOT_INODE, Root)
          /\ Goto(m, "ready")
          /\ UNCHANGED conflict
       \/ /\ Conflicts(FUSE_ROOT_INODE, Root)
          /\ Goto(m, "closed")
          /\ conflict' = [conflict EXCEPT ![m] = TRUE]
          /\ UNCHANGED inodes
    /\ UNCHANGED <<next, want, opens, removes, told, shared>>

\* get_or_allocate(f): the SELECT.
Lookup(m, f) ==
    /\ pc[m] = "ready"
    /\ \/ /\ inodes[f] # 0
          /\ told' = [told EXCEPT ![m] = @ \cup {<<inodes[f], f>>}]
          /\ UNCHANGED <<pc, want>>
       \/ /\ inodes[f] = 0
          /\ Goto(m, "insert")
          /\ want' = [want EXCEPT ![m] = f]
          /\ UNCHANGED told
    /\ conflict' = [conflict EXCEPT ![m] = FALSE]
    /\ UNCHANGED <<inodes, next, opens, removes, shared>>

\* Mutant of Insert: INSERT OR REPLACE, which takes the inode from its owner.
InsertOrReplace(m) ==
    /\ pc[m] = "insert"
    /\ next[m] < MaxInode
    /\ next' = [next EXCEPT ![m] = @ + 1]
    /\ inodes' = [g \in Ids |-> IF g = want[m] THEN next[m]
                                ELSE IF inodes[g] = next[m] THEN 0 ELSE inodes[g]]
    /\ told' = [told EXCEPT ![m] = @ \cup {<<next[m], want[m]>>}]
    /\ want' = [want EXCEPT ![m] = NoFile]
    /\ Goto(m, "ready")
    /\ UNCHANGED <<opens, removes, conflict, shared>>

\* get_or_allocate: the closure takes a number, used or not, then the INSERT.
Insert(m) ==
    /\ pc[m] = "insert"
    /\ next[m] < MaxInode
    /\ next' = [next EXCEPT ![m] = @ + 1]
    /\ \/ /\ ~ Conflicts(next[m], want[m])
          /\ insert_inode(next[m], want[m])
          /\ told' = [told EXCEPT ![m] = @ \cup {<<next[m], want[m]>>}]
          /\ UNCHANGED conflict
       \/ /\ Conflicts(next[m], want[m])
          /\ conflict' = [conflict EXCEPT ![m] = TRUE]
          /\ UNCHANGED <<inodes, told>>
    /\ want' = [want EXCEPT ![m] = NoFile]
    /\ Goto(m, "ready")
    /\ UNCHANGED <<opens, removes, shared>>

\* remove(f), of a file that was deleted; the root never is.
Remove(m, f) ==
    /\ pc[m] = "ready"
    /\ inodes[f] # 0
    /\ removes < MaxRemoves
    /\ removes' = removes + 1
    /\ inodes' = [inodes EXCEPT ![f] = 0]
    /\ conflict' = [conflict EXCEPT ![m] = FALSE]
    /\ UNCHANGED <<pc, next, want, opens, told, shared>>

\* The mount ends, by unmounting or a crash, between any two statements.
Close(m) ==
    /\ pc[m] # "closed"
    /\ Goto(m, "closed")
    /\ want' = [want EXCEPT ![m] = NoFile]
    /\ UNCHANGED <<inodes, next, opens, removes, history>>

Next ==
    \E m \in Managers :
        \/ Open(m) \/ FindRoot(m) \/ InsertRoot(m) \/ Insert(m) \/ Close(m)
        \/ \E f \in Files : Lookup(m, f) \/ Remove(m, f)

Spec == Init /\ [][Next]_vars

-----------------------------------------------------------------------------
(* Properties.                                                             *)

\* Inode 1 is the root's, and no other file's, whatever mounts start, stop and
\* allocate at the same time; a mount that is ready has it in the table.
RootIsOne ==
    /\ \A f \in Files : inodes[f] # FUSE_ROOT_INODE
    /\ \A m \in Managers : pc[m] \in {"ready", "insert"} => inodes[Root] = FUSE_ROOT_INODE

\* An inode that a mount has answered with never comes to stand for another
\* file while the mount lives, so the kernel never reads one file for another:
\* for mounts at the same time as long as nothing is removed, and for one mount
\* at a time in any case.
AnswersStay ==
    ~ shared \/ removes = 0 =>
        \A m \in Managers : pc[m] # "closed" =>
            \A a \in told[m], g \in Ids : inodes[g] = a[1] => g = a[2]

\* One mount at a time never runs into the uniqueness constraints: its counter
\* is above every inode in the table, across removals, restarts and crashes.
NoConflict == ~ shared => \A m \in Managers : ~ conflict[m]

-----------------------------------------------------------------------------
(***************************************************************************)
(* Inductive invariants (proved in InodeManager_proofs).                   *)
(***************************************************************************)

RootInv ==
    /\ TypeOK
    /\ RootIsOne
    /\ \A m \in Managers :
         /\ pc[m] # "closed" => next[m] > FUSE_ROOT_INODE
         /\ pc[m] = "insert" <=> want[m] # NoFile
    /\ inodes[Root] \in {0, FUSE_ROOT_INODE}
    /\ \A f, g \in Ids : (inodes[f] = inodes[g] /\ inodes[f] # 0) => f = g

\* Without removals, every answer is a row of the table.
SharedInv ==
    /\ RootInv
    /\ removes = 0 =>
         \A m \in Managers : \A a \in told[m] : a[1] # 0 /\ inodes[a[2]] = a[1]

\* With one mount at a time, its counter is above all that is in the table, and
\* above all that it has answered.
Sole ==
    /\ NoConflict
    /\ AnswersStay
    /\ \A m, n \in Managers : pc[m] # "closed" /\ pc[n] # "closed" => m = n
    /\ \A m \in Managers : pc[m] # "closed" =>
         /\ \A f \in Ids : inodes[f] < next[m]
         /\ \A a \in told[m] : 0 < a[1] /\ a[1] < next[m]
         /\ pc[m] = "insert" => inodes[want[m]] = 0
         /\ pc[m] = "rootInsert" => inodes[Root] = 0
         /\ pc[m] \in {"root", "rootInsert"} => told[m] = {}

SoleInv == RootInv /\ (~ shared => Sole)
=============================================================================
