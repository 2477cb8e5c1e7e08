----------------------------- MODULE SyncQueue ------------------------------
(***************************************************************************)
(* Tasks that share one SyncQueue of cloudsync-sync (queue.rs).  Every     *)
(* method locks the heap for its whole body, so each is one step; creating *)
(* an operation, which stamps it, and pushing it are two.  created_at is   *)
(* wall-clock time: several operations may carry the same time.            *)
(***************************************************************************)
EXTENDS QueueOps

CONSTANTS Tasks,        \* tasks that use the queue
          Subjects,     \* the files that tasks create operations for
          Types,        \* the types of operation that tasks create
          MaxOps,       \* bound: operations created
          MaxClock      \* bound: the clock

ASSUME QueueAssumption ==
    /\ Subjects \subseteq Files
    /\ Types \subseteq SyncOperationType
    /\ MaxOps \in Nat
    /\ MaxClock \in Nat

VARIABLES
    held,       \* per task, the operations it has created and not pushed yet
    nextId,     \* OperationId::new: ids are unique
    clock,      \* Utc::now
    \* history variables, read by properties only:
    out,        \* ids that pop, remove or clear have taken off the queue
    passed      \* per id, operations popped while it was in the queue

history == <<out, passed>>
queueVars == <<queue, held, nextId, clock, history>>

Ids == 1..MaxOps

QueueTypeOK ==
    /\ queue \subseteq Operation
    /\ held \in [Tasks -> SUBSET Operation]
    /\ nextId \in Nat
    /\ clock \in Nat
    /\ out \subseteq Ids
    /\ passed \in [Ids -> SUBSET Operation]

QueueInit ==
    /\ queue = {}
    /\ held = [t \in Tasks |-> {}]
    /\ nextId = 1
    /\ clock = 0
    /\ out = {}
    /\ passed = [i \in Ids |-> {}]

-----------------------------------------------------------------------------
ClockTicks ==
    /\ clock < MaxClock
    /\ clock' = clock + 1
    /\ UNCHANGED <<queue, held, nextId, history>>

\* SyncOperation::new.
Create(t) ==
    /\ nextId <= MaxOps
    /\ nextId' = nextId + 1
    /\ \E f \in Subjects, type \in Types, prio \in SyncPriority :
         held' = [held EXCEPT ![t] = @ \cup {NewOperation(nextId, f, type, prio, clock)}]
    /\ UNCHANGED <<queue, clock, history>>

Push(t) ==
    /\ \E o \in held[t] :
         /\ queue' = queue \cup {o}
         /\ held' = [held EXCEPT ![t] = @ \ {o}]
    /\ UNCHANGED <<nextId, clock, history>>

Pop(t) ==
    /\ \E o \in Greatest(queue) :
         /\ queue' = queue \ {o}
         /\ out' = out \cup {o.id}
         /\ passed' = [i \in Ids |-> IF \E p \in queue' : p.id = i
                                     THEN passed[i] \cup {o} ELSE passed[i]]
    /\ UNCHANGED <<held, nextId, clock>>

\* remove of an id that is in the queue.
RemoveFound(t, id) ==
    /\ \E o \in queue : o.id = id
    /\ queue' = remove(queue, id)
    /\ out' = out \cup {id}
    /\ UNCHANGED <<held, nextId, clock, passed>>

\* remove of an id that was in the queue, or never was: OperationNotFound.
RemoveMissing(t, id) ==
    /\ id < nextId
    /\ \A o \in queue : o.id # id
    /\ queue' = remove(queue, id)
    /\ UNCHANGED <<held, nextId, clock, history>>

Clear(t) ==
    /\ queue' = {}
    /\ out' = out \cup {o.id : o \in queue}
    /\ UNCHANGED <<held, nextId, clock, passed>>

QueueNext ==
    \/ ClockTicks
    \/ \E t \in Tasks :
         \/ Create(t) \/ Push(t) \/ Pop(t) \/ Clear(t)
         \/ \E id \in Ids : RemoveFound(t, id) \/ RemoveMissing(t, id)

QueueSpec == QueueInit /\ [][QueueNext]_queueVars

-----------------------------------------------------------------------------
(* Properties.                                                             *)

\* Every operation that was created is with its task, in the queue, or was taken off
\* it on purpose: pop, clear and remove account for every one.  Of remove its comment
\* says that it removes "a specific operation", and that it returns an error "if not
\* found".
NothingLost ==
    \A i \in 1..(nextId - 1) :
        \/ \E t \in Tasks : \E o \in held[t] : o.id = i
        \/ \E o \in queue : o.id = i
        \/ i \in out

\* Whatever was popped while an operation waited had a higher priority, or the
\* same one and was not younger (SyncQueue: "High > Normal > Low, with FIFO
\* ordering within the same priority level").
NoOvertaking ==
    \A o \in queue : \A p \in passed[o.id] :
        \/ p.priority > o.priority
        \/ p.priority = o.priority /\ p.created_at <= o.created_at

\* list shows the operations in an order in which pop can take them off: the
\* two comparisons, written separately, agree ("same as queue ordering"); and the
\* operations of list_by_priority stand in it side by side.
ListIsPopOrder ==
    \A s \in list(queue) :
        /\ \A i \in DOMAIN s : s[i] \in Greatest({s[j] : j \in i..Len(s)})
        /\ \A p \in SyncPriority :
            LET places == {i \in DOMAIN s : s[i] \in list_by_priority(queue, p)}
            IN  \A i, k \in places : i..k \subseteq places

-----------------------------------------------------------------------------
(***************************************************************************)
(* Inductive invariant (proved in Sync_proofs).                            *)
(***************************************************************************)

\* An operation that has been created.
Created(o) ==
    /\ o.id \in Ids
    /\ o.id < nextId

\* No two places hold operations with the same id.
IdsUnique ==
    /\ \A o, p \in queue : o.id = p.id => o = p
    /\ \A t \in Tasks : \A o \in held[t], p \in queue : o.id # p.id
    /\ \A t, u \in Tasks : \A o \in held[t], p \in held[u] : o.id = p.id => t = u /\ o = p

QueueInv ==
    /\ QueueTypeOK
    /\ nextId # 0
    /\ \A o \in queue : Created(o)
    /\ \A t \in Tasks : \A o \in held[t] : Created(o)
    /\ IdsUnique

\* Nothing has been popped past an operation that is not in the queue yet.
OrderInv ==
    /\ QueueInv
    /\ NoOvertaking
    /\ \A i \in Ids : i >= nextId => passed[i] = {}
    /\ \A t \in Tasks : \A o \in held[t] : passed[o.id] = {}
=============================================================================
