------------------------------ MODULE QueueOps ------------------------------
(***************************************************************************)
(* The operations of cloudsync-sync's SyncQueue (queue.rs) on its value.   *)
(* The heap is a set of operations: what a BinaryHeap promises is that pop *)
(* returns a greatest element, any of them when several compare equal.     *)
(***************************************************************************)
EXTENDS Naturals, FiniteSets, Sequences

CONSTANT Files          \* provider file ids, of files and of folders

VARIABLE queue          \* the heap

Low == 0
Normal == 1
High == 2
SyncPriority == {Low, Normal, High}

SyncOperationType == {"Upload", "Download", "Delete"}

\* What of a SyncOperation the queue and engine look at.
Operation == [id : Nat, file : Files, operation_type : SyncOperationType,
              priority : SyncPriority, created_at : Nat]

\* SyncOperation::new.
NewOperation(id, f, type, prio, now) ==
    [id |-> id, file |-> f, operation_type |-> type, priority |-> prio, created_at |-> now]

\* Mutant of Greater: within a priority the youngest comes first.
GreaterLifo(a, b) ==
    \/ a.priority > b.priority
    \/ a.priority = b.priority /\ a.created_at > b.created_at

\* QueuedOperation::cmp is Ordering::Greater.
Greater(a, b) ==
    \/ a.priority > b.priority
    \/ a.priority = b.priority /\ b.created_at > a.created_at

\* What peek may show and pop may take off.
Greatest(q) == {o \in q : \A p \in q : ~ Greater(p, o)}

\* Mutant of SortsBefore: list sorts by creation time before priority.
SortsByAge(a, b) ==
    \/ a.created_at < b.created_at
    \/ a.created_at = b.created_at /\ a.priority > b.priority

\* The comparison that list sorts by says Less.
SortsBefore(a, b) ==
    \/ b.priority < a.priority
    \/ b.priority = a.priority /\ a.created_at < b.created_at

\* What list may return.
list(q) ==
    {s \in [1..Cardinality(q) -> q] :
        /\ \A o \in q : \E i \in DOMAIN s : s[i] = o
        /\ \A i, j \in DOMAIN s : i < j => ~ SortsBefore(s[j], s[i])}

list_by_priority(q, priority) == {o \in q : o.priority = priority}

\* remove drains the heap before it looks for the id, and puts the operations
\* back only if it finds it.
remove(q, id) ==
    IF \E o \in q : o.id = id THEN {o \in q : o.id # id} ELSE {}
=============================================================================
