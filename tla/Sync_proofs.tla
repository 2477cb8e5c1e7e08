---------------------------- MODULE Sync_proofs -----------------------------
(***************************************************************************)
(* Proofs about cloudsync-sync.                                            *)
(*                                                                         *)
(* The engine (SyncEngine).  What is Covered, tried or about to be tried,  *)
(* stays so at every step (CoveredStep); ListingInv says that the files of *)
(* the listing are.  When the daemon waits for its timer the queue is      *)
(* empty, so Covered then means tried.                                     *)
(*                                                                         *)
(* The queue (SyncQueue).  QueueInv, which says that ids are unique, is    *)
(* inductive for any number of tasks and operations; OrderInv adds what    *)
(* has been popped past which operation.                                   *)
(***************************************************************************)
EXTENDS SyncEngine, SyncQueue, FiniteSetTheorems, TLAPS

USE ConstantsAssumption

-----------------------------------------------------------------------------
(* Operations.                                                             *)

\* What NewOperation returns.
LEMMA NewOperationType ==
    ASSUME NEW id \in Nat, NEW f \in Files, NEW type \in SyncOperationType,
           NEW prio \in SyncPriority, NEW now \in Nat
    PROVE  /\ NewOperation(id, f, type, prio, now) \in Operation
           /\ NewOperation(id, f, type, prio, now).id = id
           /\ NewOperation(id, f, type, prio, now).file = f
BY DEF NewOperation, Operation

\* ... for a download.
LEMMA NewDownload ==
    ASSUME NEW id \in Nat, NEW f \in Files, NEW prio \in SyncPriority
    PROVE  /\ NewOperation(id, f, "Download", prio, id) \in Operation
           /\ NewOperation(id, f, "Download", prio, id).file = f
BY NewOperationType DEF SyncOperationType

\* The cloud only counts on.
LEMMA CloudStep ==
    ASSUME TypeOK, Cloud
    PROVE  /\ changes' = changes + 1
           /\ cloud' \in [Files -> Nat]
           /\ UNCHANGED <<local, queue, pc, op, faults, attempts, listVars, base>>
BY DEF Cloud, CloudPut, CloudDelete, TypeOK

\* The operations of a listing are well typed, and there is one for every file.
LEMMA ListOpsCover ==
    ASSUME ListFolder, TypeOK
    PROVE  /\ queue' \subseteq Operation
           /\ queue \subseteq queue'
           /\ \A f \in Listing : \E o \in queue' : o.file = f
<1>1. PICK at \in [RootFiles -> 1..Cardinality(Files)] :
        queue' = queue \cup {NewOperation(at[f], f, "Download", High, at[f]) : f \in Listing}
  BY DEF ListFolder
<1>2. \A f \in Listing : at[f] \in Nat /\ f \in Files
  BY <1>1, FS_CardinalityType DEF Listing
<1>3. High \in SyncPriority
  BY DEF SyncPriority
<1>4. \A f \in Listing :
        /\ NewOperation(at[f], f, "Download", High, at[f]) \in Operation
        /\ NewOperation(at[f], f, "Download", High, at[f]).file = f
  BY <1>2, <1>3, NewDownload
<1> QED BY <1>1, <1>4 DEF TypeOK

-----------------------------------------------------------------------------
(* The listing.                                                            *)

\* Every step keeps the types.
LEMMA NextType == ASSUME ListingInv, [Next]_vars PROVE TypeOK'
<1> USE DEF cloudVars, attempts, listVars, None, Partial, ChangeOrNone
<1>0. TypeOK /\ (pc = "download" => op \in Files) /\ changes \in Nat
  BY DEF ListingInv, TypeOK
<1>1. CASE Cloud
  BY <1>0, <1>1, CloudStep DEF TypeOK
<1>2. CASE Start \/ ListFails \/ GetToken \/ Tick \/ FetchNone \/ FetchFails \/ ExecDone
  BY <1>0, <1>2 DEF Start, ListFails, GetToken, Tick, FetchNone, FetchFails, ExecDone, Fault, TypeOK
<1>3. CASE ListFolder
  <2>1. queue' \subseteq Operation /\ Listing \subseteq Files
    BY <1>0, <1>3, ListOpsCover DEF Listing
  <2> QED BY <1>0, <1>3, <2>1 DEF ListFolder, TypeOK
<1>5. CASE PopNext
  <2>1. queue' \subseteq Operation /\ op' \in Files
    BY <1>0, <1>5 DEF PopNext, Greatest, TypeOK, Operation
  <2> QED BY <1>0, <1>5, <2>1 DEF PopNext, TypeOK
<1>6. CASE Download \/ DownloadFails
  <2>1. failed' \in [Files -> BOOLEAN]
    BY <1>0, <1>6 DEF Download, DownloadFails, Attempt, TypeOK
  <2>2. tried' \in [Files -> ChangeOrNone]
    BY <1>0, <1>6 DEF Download, DownloadFails, Attempt, TypeOK
  <2>3. local' \in [Files -> Nat \cup {Partial}]
    <3>1. op \in Files /\ cloud[op] \in Nat /\ local \in [Files -> Nat \cup {Partial}]
      BY <1>0, <1>6 DEF Download, DownloadFails, TypeOK
    <3>2. \/ local' = [local EXCEPT ![op] = cloud[op]]
          \/ local' = local
          \/ local' = [local EXCEPT ![op] = Partial]
      BY <1>6 DEF Download, DownloadFails
    <3> QED BY <3>1, <3>2
  <2>4. faults' \in Nat /\ pc' = "exec" /\ op' = NoFile
    <3>1. faults' = faults \/ faults' = faults + 1
      BY <1>6 DEF Download, DownloadFails, Fault
    <3>2. pc' = "exec" /\ op' = NoFile
      BY <1>6 DEF Download, DownloadFails
    <3> QED BY <1>0, <3>1, <3>2 DEF TypeOK
  <2>5. UNCHANGED <<cloudVars, queue, listVars, base>>
    BY <1>6 DEF Download, DownloadFails
  <2> QED BY <1>0, <2>1, <2>2, <2>3, <2>4, <2>5 DEF TypeOK
<1>7. CASE UNCHANGED vars
  BY <1>0, <1>7 DEF vars, TypeOK
<1> QED BY <1>1, <1>2, <1>3, <1>5, <1>6, <1>7 DEF Next, Task

\* A file that is covered stays covered: an operation leaves the queue only to
\* be executed, and its execution counts whether it fails or not.
LEMMA CoveredStep ==
    ASSUME ListingInv, [Next]_vars, NEW f \in Files, NEW i \in Nat, i <= changes, Covered(f, i)
    PROVE  Covered(f, i)'
<1> USE DEF cloudVars, attempts, listVars
<1>0. TypeOK /\ changes \in Nat
  BY DEF ListingInv, TypeOK
<1>1. CASE UNCHANGED tried /\ queue \subseteq queue' /\ pc # "download"
  BY <1>1 DEF Covered
<1>2. CASE UNCHANGED <<tried, queue, pc, op>>
  BY <1>2 DEF Covered
<1>3. CASE Cloud
  BY <1>0, <1>2, <1>3, CloudStep
<1>4. CASE PopNext
  <2>1. PICK o \in queue : queue' = queue \ {o} /\ op' = o.file
    BY <1>4 DEF PopNext, Greatest
  <2>2. UNCHANGED tried /\ pc' = "download" /\ pc = "exec"
    BY <1>4 DEF PopNext
  <2> QED BY <2>1, <2>2 DEF Covered
<1>5. CASE Download \/ DownloadFails
  <2>1. /\ UNCHANGED queue
        /\ tried' = [tried EXCEPT ![op] = changes]
    BY <1>5 DEF Download, DownloadFails, Attempt
  <2>2. CASE f = op
    BY <1>0, <2>1, <2>2 DEF Covered, TypeOK
  <2>3. CASE f # op
    BY <1>0, <2>1, <2>3 DEF Covered, TypeOK
  <2> QED BY <2>2, <2>3
<1>6. CASE ListFolder
  BY <1>0, <1>1, <1>6, ListOpsCover DEF ListFolder
<1>7. CASE Start \/ ListFails \/ GetToken \/ Tick \/ FetchNone \/ FetchFails \/ ExecDone
  BY <1>1, <1>7 DEF Start, ListFails, GetToken, Tick, FetchNone, FetchFails, ExecDone
<1>8. CASE UNCHANGED vars
  BY <1>2, <1>8 DEF vars
<1> QED BY <1>3, <1>4, <1>5, <1>6, <1>7, <1>8 DEF Next, Task

\* ListingInv is inductive.
LEMMA ListingStep == ListingInv /\ [Next]_vars => ListingInv'
<1> SUFFICES ASSUME ListingInv, [Next]_vars PROVE ListingInv'
  OBVIOUS
<1> USE DEF cloudVars, attempts, listVars
<1>0. TypeOK /\ TypeOK' /\ changes \in Nat /\ listedAt \in Nat /\ listed \subseteq Files
  BY NextType DEF ListingInv, TypeOK
<1>1. pc' = "download" => op' \in Files
  BY <1>0, CloudStep DEF ListingInv, Next, Task, vars, Start, ListFolder, ListFails, GetToken, Tick,
     FetchNone, FetchFails, PopNext, ExecDone, Download, DownloadFails, Greatest, TypeOK,
     Operation
<1>2. pc' \in {"tick", "start", "list"} => queue' = {}
  BY <1>0, CloudStep DEF ListingInv, Next, Task, vars, Start, ListFolder, ListFails, GetToken, Tick,
     FetchNone, FetchFails, PopNext, ExecDone, Download, DownloadFails
<1>3. changes <= changes' /\ changes' \in Nat
  <2>1. CASE Cloud
    BY <1>0, <2>1, CloudStep
  <2>2. CASE UNCHANGED changes
    BY <1>0, <2>2
  <2> QED BY <2>1, <2>2 DEF Next, Task, vars, Start, ListFolder, ListFails, GetToken, Tick,
       FetchNone, FetchFails, PopNext, ExecDone, Download, DownloadFails
<1>4. CASE ListFolder
  <2>1. listed' = Listing /\ listedAt' = changes /\ changes' = changes
    BY <1>4 DEF ListFolder
  <2>2. \A f \in listed' : Covered(f, listedAt)'
    BY <1>0, <1>4, <2>1, ListOpsCover DEF Covered
  <2> QED BY <1>0, <1>1, <1>2, <2>1, <2>2 DEF ListingInv
<1>5. CASE UNCHANGED listVars
  <2>1. \A f \in listed : Covered(f, listedAt)'
    <3> SUFFICES ASSUME NEW f \in listed PROVE Covered(f, listedAt)'
      OBVIOUS
    <3>1. PICK i \in Nat : i = listedAt
      BY <1>0
    <3>2. Covered(f, i) /\ i <= changes /\ f \in Files
      BY <1>0, <3>1 DEF ListingInv
    <3>3. Covered(f, i)'
      BY <3>2, CoveredStep
    <3> QED BY <1>5, <3>1, <3>3 DEF Covered
  <2> QED BY <1>0, <1>1, <1>2, <1>3, <1>5, <2>1 DEF ListingInv
<1> QED BY <1>0, <1>4, <1>5, CloudStep DEF Next, Task, vars, Start, ListFails, GetToken, Tick,
     FetchNone, FetchFails, PopNext, ExecDone, Download, DownloadFails

\* The initial states satisfy the invariant.
LEMMA InitInv == Init => ListingInv
BY DEF Init, ListingInv, TypeOK, ChangeOrNone, None, Partial

\* Every reachable state is well typed.
THEOREM TypeCorrect == Spec => []TypeOK
<1>1. ListingInv => TypeOK
  BY DEF ListingInv
<1> QED BY <1>1, InitInv, ListingStep, PTL DEF Spec

\* Every file of the initial listing has been tried when the daemon first waits
\* for its timer, and stays so.
THEOREM ListingSafety == Spec => []ListingTried
<1>1. ListingInv => ListingTried
  BY DEF ListingInv, ListingTried, Covered
<1> QED BY <1>1, InitInv, ListingStep, PTL DEF Spec

-----------------------------------------------------------------------------
(* The queue.                                                              *)

USE QueueAssumption

\* The initial states satisfy the invariant.
LEMMA QueueInitInv == QueueInit => QueueInv
BY DEF QueueInit, QueueInv, QueueTypeOK, Created, IdsUnique, Ids

\* Every step keeps the types.
LEMMA QueueTypeStep == ASSUME QueueInv, [QueueNext]_queueVars PROVE QueueTypeOK'
<1> USE DEF history, Ids
<1>0. QueueTypeOK /\ \A o \in queue : o.id \in Ids
  BY DEF QueueInv, Created
<1>1. CASE ClockTicks
  BY <1>0, <1>1 DEF ClockTicks, QueueTypeOK
<1>2. ASSUME NEW t \in Tasks, Create(t) PROVE QueueTypeOK'
  <2>1. PICK f \in Subjects, type \in Types, prio \in SyncPriority :
          held' = [held EXCEPT ![t] = @ \cup {NewOperation(nextId, f, type, prio, clock)}]
    BY <1>2 DEF Create
  <2>2. NewOperation(nextId, f, type, prio, clock) \in Operation
    BY <1>0, NewOperationType DEF QueueTypeOK
  <2>3. held' \in [Tasks -> SUBSET Operation]
    BY <1>0, <2>1, <2>2 DEF QueueTypeOK
  <2> QED BY <1>0, <1>2, <2>3 DEF Create, QueueTypeOK
<1>3. ASSUME NEW t \in Tasks, Push(t) PROVE QueueTypeOK'
  BY <1>0, <1>3 DEF Push, QueueTypeOK
<1>4. ASSUME NEW t \in Tasks, Pop(t) PROVE QueueTypeOK'
  <2>1. PICK o \in queue :
          /\ queue' = queue \ {o}
          /\ out' = out \cup {o.id}
          /\ passed' = [i \in Ids |-> IF \E p \in queue' : p.id = i
                                      THEN passed[i] \cup {o} ELSE passed[i]]
    BY <1>4 DEF Pop, Greatest
  <2>2. passed' \in [Ids -> SUBSET Operation]
    BY <1>0, <2>1 DEF QueueTypeOK
  <2>4. out' \subseteq Ids /\ queue' \subseteq Operation
    BY <1>0, <2>1 DEF QueueTypeOK
  <2> QED BY <1>0, <1>4, <2>2, <2>4 DEF Pop, QueueTypeOK
<1>5. ASSUME NEW t \in Tasks, NEW id \in Ids, RemoveFound(t, id) PROVE QueueTypeOK'
  BY <1>0, <1>5 DEF RemoveFound, remove, QueueTypeOK
<1>6. ASSUME NEW t \in Tasks, NEW id \in Ids, RemoveMissing(t, id) PROVE QueueTypeOK'
  BY <1>0, <1>6 DEF RemoveMissing, remove, QueueTypeOK
<1>7. ASSUME NEW t \in Tasks, Clear(t) PROVE QueueTypeOK'
  BY <1>0, <1>7 DEF Clear, QueueTypeOK
<1>8. CASE UNCHANGED queueVars
  BY <1>0, <1>8 DEF queueVars, QueueTypeOK
<1> QED BY <1>1, <1>2, <1>3, <1>4, <1>5, <1>6, <1>7, <1>8 DEF QueueNext

\* QueueInv is inductive.
LEMMA QueueStep == QueueInv /\ [QueueNext]_queueVars => QueueInv'
<1> SUFFICES ASSUME QueueInv, [QueueNext]_queueVars PROVE QueueInv'
  OBVIOUS
<1> USE DEF history
<1>0. QueueTypeOK /\ QueueTypeOK'
  BY QueueTypeStep DEF QueueInv
<1> DEFINE Rest ==
      /\ nextId # 0
      /\ \A o \in queue : Created(o)
      /\ \A t \in Tasks : \A o \in held[t] : Created(o)
      /\ IdsUnique
<1>a. Rest
  BY DEF QueueInv
<1>1. ASSUME ClockTicks PROVE Rest'
  BY <1>1, <1>a DEF ClockTicks, Created, IdsUnique
<1>2. ASSUME NEW t \in Tasks, Create(t) PROVE Rest'
  <2>1. PICK new \in Operation :
          new.id = nextId /\ held' = [held EXCEPT ![t] = @ \cup {new}]
    <3>1. PICK f \in Subjects, type \in Types, prio \in SyncPriority :
            held' = [held EXCEPT ![t] = @ \cup {NewOperation(nextId, f, type, prio, clock)}]
      BY <1>2 DEF Create
    <3>2. /\ NewOperation(nextId, f, type, prio, clock) \in Operation
          /\ NewOperation(nextId, f, type, prio, clock).id = nextId
      BY <1>0, NewOperationType DEF QueueTypeOK
    <3> QED BY <3>1, <3>2
  <2>2. /\ nextId' = nextId + 1 /\ nextId \in Ids /\ nextId \in Nat
        /\ UNCHANGED queue
    BY <1>0, <1>2, <1>a DEF Create, QueueTypeOK, Ids
  <2>3. \A u \in Tasks : \A o \in held'[u] : o \in held[u] \/ (u = t /\ o = new)
    BY <1>0, <2>1 DEF QueueTypeOK
  <2>6. Ids \subseteq Nat /\ Ids' = Ids
    BY DEF Ids
  <2>7. /\ \A o \in queue' : Created(o)'
        /\ \A u \in Tasks : \A o \in held'[u] : Created(o)'
    <3>1. ASSUME NEW o, Created(o) PROVE Created(o)'
      BY <2>2, <3>1 DEF Created, Ids
    <3>2. Created(new)'
      BY <2>1, <2>2 DEF Created, Ids
    <3> QED BY <1>a, <2>2, <2>3, <3>1, <3>2
  <2>8. IdsUnique'
    BY <1>a, <2>1, <2>2, <2>3, <2>6 DEF Created, IdsUnique
  <2>9. nextId' # 0
    BY <2>2
  <2> QED BY <2>6, <2>7, <2>8, <2>9
<1>3. ASSUME NEW t \in Tasks, Push(t) PROVE Rest'
  <2>1. PICK o \in held[t] : queue' = queue \cup {o} /\ held' = [held EXCEPT ![t] = @ \ {o}]
    BY <1>3 DEF Push
  <2>2. UNCHANGED nextId
    BY <1>3 DEF Push
  <2>3. \A u \in Tasks : /\ held'[u] \subseteq held[u] /\ (u = t => o \notin held'[u])
                         /\ \A p \in held[u] : p \in held'[u] \/ p = o
    BY <1>0, <2>1 DEF QueueTypeOK
  <2>4. /\ \A p \in queue' : Created(p)'
        /\ \A u \in Tasks : \A p \in held'[u] : Created(p)'
    BY <1>a, <2>1, <2>2, <2>3 DEF Created
  <2>5. IdsUnique'
    BY <1>a, <2>1, <2>3 DEF IdsUnique
  <2> QED BY <1>a, <2>2, <2>4, <2>5 DEF Ids
<1>4. ASSUME queue' \subseteq queue, UNCHANGED <<nextId, held>> PROVE Rest'
  BY <1>4, <1>a DEF Created, IdsUnique, Ids
<1>5. ASSUME NEW t \in Tasks, Pop(t) \/ Clear(t) PROVE Rest'
  BY <1>4, <1>5 DEF Pop, Clear
<1>6. ASSUME NEW t \in Tasks, NEW id \in Ids, RemoveFound(t, id) \/ RemoveMissing(t, id)
      PROVE  Rest'
  BY <1>4, <1>6 DEF RemoveFound, RemoveMissing, remove
<1>8. ASSUME UNCHANGED queueVars PROVE Rest'
  BY <1>4, <1>8 DEF queueVars
<1>9. Rest'
  BY <1>1, <1>2, <1>3, <1>5, <1>6, <1>8 DEF QueueNext
<1> QED BY <1>0, <1>9 DEF QueueInv

\* Every reachable state is well typed.
THEOREM QueueTypes == QueueSpec => []QueueTypeOK
<1>1. QueueInv => QueueTypeOK
  BY DEF QueueInv
<1> QED BY QueueInitInv, QueueStep, <1>1, PTL DEF QueueSpec

-----------------------------------------------------------------------------
\* OrderInv is inductive.
LEMMA OrderStep == OrderInv /\ [QueueNext]_queueVars => OrderInv'
<1> SUFFICES ASSUME OrderInv, [QueueNext]_queueVars PROVE OrderInv'
  OBVIOUS
<1> USE DEF history
<1>0. QueueInv /\ QueueInv' /\ QueueTypeOK /\ QueueTypeOK'
  BY QueueStep DEF OrderInv, QueueInv
<1> DEFINE Rest ==
      /\ NoOvertaking
      /\ \A i \in Ids : i >= nextId => passed[i] = {}
      /\ \A t \in Tasks : \A o \in held[t] : passed[o.id] = {}
<1>a. Rest
  BY DEF OrderInv
<1>1. ASSUME NEW t \in Tasks, Create(t) PROVE Rest'
  <2>1. PICK new : new.id = nextId /\ held' = [held EXCEPT ![t] = @ \cup {new}]
    <3>1. PICK f \in Subjects, type \in Types, prio \in SyncPriority :
            held' = [held EXCEPT ![t] = @ \cup {NewOperation(nextId, f, type, prio, clock)}]
      BY <1>1 DEF Create
    <3>2. NewOperation(nextId, f, type, prio, clock).id = nextId
      BY <1>0, NewOperationType DEF QueueTypeOK
    <3> QED BY <3>1, <3>2
  <2>2. nextId \in Ids /\ nextId' = nextId + 1 /\ UNCHANGED <<queue, passed>>
    BY <1>0, <1>1 DEF Create, QueueTypeOK, QueueInv, Ids
  <2>3. \A u \in Tasks : \A o \in held'[u] : o \in held[u] \/ o = new
    BY <1>0, <2>1 DEF QueueTypeOK
  <2> QED BY <1>a, <2>1, <2>2, <2>3 DEF NoOvertaking, Ids
<1>2. ASSUME NEW t \in Tasks, Push(t) PROVE Rest'
  <2>1. PICK o \in held[t] : queue' = queue \cup {o} /\ held' = [held EXCEPT ![t] = @ \ {o}]
    BY <1>2 DEF Push
  <2>2. UNCHANGED <<nextId, passed>> /\ \A u \in Tasks : held'[u] \subseteq held[u]
    BY <1>0, <1>2, <2>1 DEF Push, QueueTypeOK
  <2> QED BY <1>a, <2>1, <2>2 DEF NoOvertaking, Ids
<1>3. ASSUME NEW t \in Tasks, Pop(t) PROVE Rest'
  <2>1. PICK o \in Greatest(queue) :
          /\ queue' = queue \ {o}
          /\ passed' = [i \in Ids |-> IF \E p \in queue' : p.id = i
                                      THEN passed[i] \cup {o} ELSE passed[i]]
    BY <1>3 DEF Pop
  <2>2. UNCHANGED <<nextId, held>>
    BY <1>3 DEF Pop
  <2>3. ASSUME NEW p \in queue, p # o
        PROVE  \/ o.priority > p.priority
               \/ o.priority = p.priority /\ o.created_at <= p.created_at
    <3>1. ~ Greater(p, o) /\ o \in queue
      BY <2>1 DEF Greatest
    <3>2. /\ o.priority \in {0, 1, 2} /\ p.priority \in {0, 1, 2}
          /\ o.created_at \in Nat /\ p.created_at \in Nat
      BY <1>0, <3>1 DEF QueueTypeOK, Operation, SyncPriority, Low, Normal, High
    <3> QED BY <3>1, <3>2 DEF Greater
  <2>4. \A p \in queue : p.id \in Ids /\ p.id < nextId
    BY <1>0 DEF QueueInv, Created
  <2>5. NoOvertaking'
    <3> SUFFICES ASSUME NEW p \in queue', NEW q \in passed'[p.id]
                 PROVE  \/ q.priority > p.priority
                        \/ q.priority = p.priority /\ q.created_at <= p.created_at
      BY DEF NoOvertaking
    <3>1. p \in queue /\ p # o /\ (q = o \/ q \in passed[p.id])
      BY <2>1, <2>4
    <3> QED BY <1>a, <2>3, <3>1 DEF NoOvertaking
  <2>6. \A i \in Ids : i >= nextId => passed'[i] = passed[i]
    BY <1>0, <2>1, <2>4 DEF QueueTypeOK, Ids
  <2>7. \A u \in Tasks : \A p \in held[u] : passed'[p.id] = passed[p.id]
    BY <1>0, <2>1 DEF QueueInv, IdsUnique, Created
  <2> QED BY <1>a, <2>2, <2>5, <2>6, <2>7 DEF Ids
<1>4. ASSUME queue' \subseteq queue, UNCHANGED <<nextId, held, passed>> PROVE Rest'
  BY <1>4, <1>a DEF NoOvertaking, Ids
<1>5. ASSUME ClockTicks \/ UNCHANGED queueVars PROVE Rest'
  BY <1>4, <1>5 DEF ClockTicks, queueVars
<1>6. ASSUME NEW t \in Tasks, NEW id \in Ids, RemoveFound(t, id) \/ RemoveMissing(t, id)
      PROVE  Rest'
  BY <1>4, <1>6 DEF RemoveFound, RemoveMissing, remove
<1>7. ASSUME NEW t \in Tasks, Clear(t) PROVE Rest'
  BY <1>4, <1>7 DEF Clear
<1>8. Rest'
  BY <1>1, <1>2, <1>3, <1>5, <1>6, <1>7 DEF QueueNext
<1> QED BY <1>0, <1>8 DEF OrderInv

\* While an operation waits, only more urgent or not younger ones are popped.
THEOREM OrderSafety == QueueSpec => []NoOvertaking
<1>1. QueueInit => OrderInv
  BY QueueInitInv DEF QueueInit, OrderInv, NoOvertaking
<1>2. OrderInv => NoOvertaking
  BY DEF OrderInv
<1> QED BY <1>1, <1>2, OrderStep, PTL DEF QueueSpec

-----------------------------------------------------------------------------
(* The two comparisons.                                                    *)

\* The heap's comparison and that of list agree.
LEMMA ComparisonsAgree ==
    ASSUME NEW a \in Operation, NEW b \in Operation
    PROVE  /\ Greater(a, b) <=> SortsBefore(a, b)
           /\ ~ Greater(a, a)
           /\ ~ SortsBefore(a, b) => a.priority <= b.priority
BY DEF Operation, SyncPriority, Low, Normal, High, Greater, SortsBefore

\* The queue is finite: its operations have different ids.
LEMMA QueueFinite == ASSUME QueueInv PROVE IsFiniteSet(queue)
<1> DEFINE f == [o \in queue |-> o.id]
<1>1. \A o \in queue : o.id \in Ids
  BY DEF QueueInv, Created
<1>2. f \in Injection(queue, Ids)
  BY <1>1 DEF QueueInv, IdsUnique, Injection, IsInjective
<1>3. IsFiniteSet(Ids)
  BY FS_Interval, QueueAssumption DEF Ids
<1> HIDE DEF f
<1> QED BY <1>2, <1>3, FS_Injection

\* ListIsPopOrder: the order of list is one in which pop can take the operations off,
\* and the operations of one priority stand side by side in it.
THEOREM ListSafety == QueueSpec => []ListIsPopOrder
<1>1. ASSUME QueueInv PROVE ListIsPopOrder
  <2> SUFFICES ASSUME NEW s \in list(queue)
               PROVE  /\ \A i \in DOMAIN s : s[i] \in Greatest({s[j] : j \in i..Len(s)})
                      /\ \A p \in SyncPriority :
                          LET places == {i \in DOMAIN s : s[i] \in list_by_priority(queue, p)}
                          IN  \A i, k \in places : i..k \subseteq places
    BY DEF ListIsPopOrder
  <2> DEFINE n == Cardinality(queue)
  <2>1. n \in Nat
    BY <1>1, QueueFinite, FS_CardinalityType
  <2>2. /\ s \in [1..n -> queue]
        /\ \A i, j \in 1..n : i < j => ~ SortsBefore(s[j], s[i])
    BY DEF list
  <2> HIDE DEF n
  <2>3. DOMAIN s = 1..n /\ Len(s) = n
    BY <2>1, <2>2
  <2>4. \A i \in 1..n : s[i] \in queue /\ s[i] \in Operation
    BY <1>1, <2>2 DEF QueueInv, QueueTypeOK
  <2>5. ASSUME NEW i \in 1..n PROVE s[i] \in Greatest({s[j] : j \in i..n})
    <3>1. s[i] \in {s[j] : j \in i..n}
      BY <2>1
    <3>2. ASSUME NEW j \in i..n PROVE ~ Greater(s[j], s[i])
      <4>1. j \in 1..n
        BY <2>1
      <4>2. CASE i < j
        BY <2>2, <2>4, <4>1, <4>2, ComparisonsAgree
      <4>3. CASE i = j
        BY <2>4, <4>1, <4>3, ComparisonsAgree
      <4> QED BY <2>1, <4>1, <4>2, <4>3
    <3> QED BY <3>1, <3>2 DEF Greatest
  <2>6. ASSUME NEW p \in SyncPriority,
               NEW i \in 1..n, s[i].priority = p, NEW k \in 1..n, s[k].priority = p,
               NEW m \in i..k
        PROVE  m \in 1..n /\ s[m].priority = p
    <3>1. m \in 1..n
      BY <2>1
    <3>2. s[m].priority \in Nat /\ p \in Nat
      BY <2>4, <3>1 DEF Operation, SyncPriority, Low, Normal, High
    <3>3. s[m].priority <= p
      <4>1. CASE i < m
        BY <2>2, <2>4, <2>6, <3>1, <4>1, ComparisonsAgree
      <4>2. CASE i = m
        BY <2>6, <3>2, <4>2
      <4> QED BY <2>1, <3>1, <4>1, <4>2
    <3>4. p <= s[m].priority
      <4>1. CASE m < k
        BY <2>2, <2>4, <2>6, <3>1, <4>1, ComparisonsAgree
      <4>2. CASE m = k
        BY <2>6, <3>2, <4>2
      <4> QED BY <2>1, <3>1, <4>1, <4>2
    <3> QED BY <3>1, <3>2, <3>3, <3>4
  <2>7. ASSUME NEW p \in SyncPriority
        PROVE  LET places == {i \in DOMAIN s : s[i] \in list_by_priority(queue, p)}
               IN  \A i, k \in places : i..k \subseteq places
    <3>1. {i \in DOMAIN s : s[i] \in list_by_priority(queue, p)} = {i \in 1..n : s[i].priority = p}
      BY <2>3, <2>4 DEF list_by_priority
    <3> QED BY <2>6, <3>1
  <2> QED BY <2>3, <2>5, <2>7
<1>2. QueueSpec => []QueueInv
  BY QueueInitInv, QueueStep, PTL DEF QueueSpec
<1> QED BY <1>1, <1>2, PTL
=============================================================================
