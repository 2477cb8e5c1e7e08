----------------------------- MODULE SyncEngine -----------------------------
(***************************************************************************)
(* The daemon's sync loop (cloudsync-daemon main.rs) over SyncEngine       *)
(* (cloudsync-sync engine.rs): an initial listing queues a download per    *)
(* file, every tick of a timer calls refresh_sync, and each time the queue *)
(* is then worked off.                                                     *)
(*                                                                         *)
(* One task runs all of it, so the only other actor is the cloud           *)
(* (external): its changes are numbered, and a copy of a file is named by  *)
(* the change whose content it holds.  Nothing of this is kept in the      *)
(* database: a restarted daemon begins from Init with the local copies it  *)
(* finds.  A local path is made from the name of the file; names are taken *)
(* to be distinct, so that local is kept per file.                         *)
(***************************************************************************)
EXTENDS QueueOps, Integers

CONSTANTS RootFiles,    \* those whose parent is the root folder
          Folders,      \* those that are folders
          Native,       \* cloud-native documents, which cannot be downloaded
          NoFile,       \* no operation is being executed
          MaxChanges,   \* bound: changes of the cloud
          MaxFaults     \* bound: failing provider calls

ASSUME ConstantsAssumption ==
    /\ IsFiniteSet(Files)
    /\ RootFiles \subseteq Files
    /\ Folders \subseteq Files
    /\ Native \subseteq Files
    /\ NoFile \notin Files
    /\ MaxChanges \in Nat
    /\ MaxFaults \in Nat

VARIABLES
    cloud,      \* per file, the change that its present content is from; 0: absent
    changes,    \* how many changes there have been
    local,      \* per file, the change that the local copy is from; 0: none, -1: partial
    pc,         \* where the daemon's task is
    op,         \* the file of the operation that execute_operations has popped
    faults,
    \* history variables, read by properties only:
    tried,      \* per file, changes at the last attempt to download it
    failed,     \* per file, whether that attempt failed
    listed,     \* files of the initial listing that were to be downloaded
    listedAt,   \* changes when the listing was taken
    base        \* changes at the first refresh_sync that succeeded

cloudVars == <<cloud, changes>>
attempts == <<tried, failed>>
listVars == <<listed, listedAt>>
vars == <<cloudVars, local, queue, pc, op, faults, attempts, listVars, base>>

None == -1
Partial == -1

ChangeOrNone == Nat \cup {None}

TypeOK ==
    /\ cloud \in [Files -> Nat]
    /\ changes \in Nat
    /\ local \in [Files -> Nat \cup {Partial}]
    /\ queue \subseteq Operation
    /\ pc \in {"start", "list", "token", "tick", "fetch", "exec", "download"}
    /\ op \in Files \cup {NoFile}
    /\ faults \in Nat
    /\ tried \in [Files -> ChangeOrNone]
    /\ failed \in [Files -> BOOLEAN]
    /\ listed \subseteq Files
    /\ listedAt \in Nat
    /\ base \in ChangeOrNone

Init ==
    /\ cloud = [f \in Files |-> 0]
    /\ changes = 0
    /\ local = [f \in Files |-> 0]
    /\ queue = {}
    /\ pc = "start"
    /\ op = NoFile
    /\ faults = 0
    /\ tried = [f \in Files |-> None]
    /\ failed = [f \in Files |-> FALSE]
    /\ listed = {}
    /\ listedAt = 0
    /\ base = None

-----------------------------------------------------------------------------
(* The cloud: other clients of the drive change files at any time.         *)

CloudPut(f) ==
    /\ changes < MaxChanges
    /\ changes' = changes + 1
    /\ cloud' = [cloud EXCEPT ![f] = changes + 1]
    /\ UNCHANGED <<local, queue, pc, op, faults, attempts, listVars, base>>

CloudDelete(f) ==
    /\ changes < MaxChanges
    /\ cloud[f] # 0
    /\ changes' = changes + 1
    /\ cloud' = [cloud EXCEPT ![f] = 0]
    /\ UNCHANGED <<local, queue, pc, op, faults, attempts, listVars, base>>

-----------------------------------------------------------------------------
(* The daemon's task.                                                      *)

Fault ==
    /\ faults < MaxFaults
    /\ faults' = faults + 1

\* main: with or without --skip-initial-sync.
Start ==
    /\ pc = "start"
    /\ pc' \in {"list", "tick"}
    /\ UNCHANGED <<cloudVars, local, queue, op, faults, attempts, listVars, base>>

\* The files of list_folder(root) that initial_sync queues.
Listing == {f \in RootFiles \ Folders : cloud[f] # 0}

\* initial_sync: list_folder, then a high-priority download per file, in the
\* order of the listing, which may be any.
ListFolder ==
    /\ pc = "list"
    /\ \E at \in [RootFiles -> 1..Cardinality(Files)] :
         /\ \A f, g \in RootFiles : at[f] = at[g] => f = g
         /\ queue' = queue \cup {NewOperation(at[f], f, "Download", High, at[f]) : f \in Listing}
    /\ listed' = Listing
    /\ listedAt' = changes
    /\ pc' = "token"
    /\ UNCHANGED <<cloudVars, local, op, faults, attempts, base>>

\* initial_sync returns the error of list_folder; main logs it and goes on.
ListFails ==
    /\ pc = "list"
    /\ Fault
    /\ pc' = "exec"
    /\ UNCHANGED <<cloudVars, local, queue, op, attempts, listVars, base>>

\* initial_sync: get_changes(None).  The token is logged and dropped; a failure
\* is returned, and main executes what was queued all the same.
GetToken ==
    /\ pc = "token"
    /\ UNCHANGED faults \/ Fault
    /\ pc' = "exec"
    /\ UNCHANGED <<cloudVars, local, queue, op, attempts, listVars, base>>

\* main: refresh_timer.tick(); refresh_sync is called with None, at every tick.
Tick ==
    /\ pc = "tick"
    /\ pc' = "fetch"
    /\ UNCHANGED <<cloudVars, local, queue, op, faults, attempts, listVars, base>>

\* refresh_sync(None): get_changes(None) answers with no changes, no further page and
\* a cursor for "now", so nothing is queued.  main logs the cursor and drops it.
FetchNone ==
    /\ pc = "fetch"
    /\ base' = IF base = None THEN changes ELSE base
    /\ pc' = "exec"
    /\ UNCHANGED <<cloudVars, local, queue, op, faults, attempts, listVars>>

\* refresh_sync returns the error of get_changes; main logs it and goes on.
FetchFails ==
    /\ pc = "fetch"
    /\ Fault
    /\ pc' = "exec"
    /\ UNCHANGED <<cloudVars, local, queue, op, attempts, listVars, base>>

\* execute_operations: pop.  Only downloads are ever queued.
PopNext ==
    /\ pc = "exec"
    /\ \E o \in Greatest(queue) :
         /\ queue' = queue \ {o}
         /\ op' = o.file
    /\ pc' = "download"
    /\ UNCHANGED <<cloudVars, local, faults, attempts, listVars, base>>

\* execute_operations: pop returns QueueEmpty.
ExecDone ==
    /\ pc = "exec"
    /\ queue = {}
    /\ pc' = "tick"
    /\ UNCHANGED <<cloudVars, local, queue, op, faults, attempts, listVars, base>>

Attempt(f, fails) ==
    /\ tried' = [tried EXCEPT ![f] = changes]
    /\ failed' = [failed EXCEPT ![f] = fails]

\* execute_download: the provider writes the present content to the local path.
Download ==
    /\ pc = "download"
    /\ cloud[op] # 0
    /\ op \notin Native
    /\ local' = [local EXCEPT ![op] = cloud[op]]
    /\ Attempt(op, FALSE)
    /\ pc' = "exec"
    /\ op' = NoFile
    /\ UNCHANGED <<cloudVars, queue, faults, listVars, base>>

\* Mutant of DownloadFails: the operation is queued again, as the comment in the code
\* has it for later, without a limit.
DownloadFailsAndRequeues ==
    /\ pc = "download"
    /\ \/ /\ cloud[op] = 0 \/ op \in Native
          /\ UNCHANGED <<local, faults>>
       \/ /\ Fault
          /\ local' \in {local, [local EXCEPT ![op] = Partial]}
    /\ Attempt(op, TRUE)
    /\ queue' = queue \cup {NewOperation(changes, op, "Download", Normal, changes)}
    /\ pc' = "exec"
    /\ op' = NoFile
    /\ UNCHANGED <<cloudVars, listVars, base>>

\* Mutant of DownloadFails: the error ends execute_operations.
DownloadFailsAndEnds ==
    /\ pc = "download"
    /\ \/ /\ cloud[op] = 0 \/ op \in Native
          /\ UNCHANGED <<local, faults>>
       \/ /\ Fault
          /\ local' \in {local, [local EXCEPT ![op] = Partial]}
    /\ Attempt(op, TRUE)
    /\ pc' = "tick"
    /\ op' = NoFile
    /\ UNCHANGED <<cloudVars, queue, listVars, base>>

\* execute_download fails: the file is gone or cannot be downloaded, a call
\* fails, or the body breaks off and leaves a partial file.  The error is
\* logged, the operation is not queued again, and the next one is popped.
DownloadFails ==
    /\ pc = "download"
    /\ \/ /\ cloud[op] = 0 \/ op \in Native
          /\ UNCHANGED <<local, faults>>
       \/ /\ Fault
          /\ local' \in {local, [local EXCEPT ![op] = Partial]}
    /\ Attempt(op, TRUE)
    /\ pc' = "exec"
    /\ op' = NoFile
    /\ UNCHANGED <<cloudVars, queue, listVars, base>>

Cloud == \E f \in Files : CloudPut(f) \/ CloudDelete(f)

Task ==
    \/ Start \/ ListFolder \/ ListFails \/ GetToken
    \/ Tick \/ FetchNone \/ FetchFails
    \/ PopNext \/ ExecDone \/ Download \/ DownloadFails

Next == Cloud \/ Task

Spec == Init /\ [][Next]_vars

\* The task runs on: provider calls return, and the timer ticks.
FairSpec == Spec /\ WF_vars(Task)

-----------------------------------------------------------------------------
(* Properties.                                                             *)

\* Every file of a listing that succeeded has been tried since, when the daemon
\* waits for its timer: neither a missing token nor downloads that fail keep
\* the others from their turn.
ListingTried ==
    pc = "tick" => \A f \in listed : tried[f] >= listedAt

\* The refresh loop never gets stuck in the queue: whatever fails, and though the queue
\* holds files that are gone or that can never be downloaded, execute_operations ends
\* and the daemon comes back to its timer, from wherever it is after its start.
RefreshesForever == (pc # "start") ~> (pc = "tick")

\* A file that changes once the refresh loop runs ends up with its present
\* content in the local copy, unless the last attempt to download it failed
\* (refresh_sync: "detect files that have been added, modified, or deleted
\* since the last sync").
RefreshConverges ==
    <>[] \A f \in Files \ Folders :
            (base # None /\ cloud[f] > base) => (local[f] = cloud[f] \/ failed[f])

-----------------------------------------------------------------------------
(***************************************************************************)
(* Inductive invariant (proved in Sync_proofs).                            *)
(***************************************************************************)

\* File f has been tried since the first i changes, or is about to be.
Covered(f, i) ==
    \/ tried[f] >= i
    \/ \E o \in queue : o.file = f
    \/ pc = "download" /\ op = f

ListingInv ==
    /\ TypeOK
    /\ pc = "download" => op \in Files
    /\ pc = "tick" => queue = {}
    /\ pc \in {"start", "list"} => queue = {}
    /\ listedAt <= changes
    /\ \A f \in listed : Covered(f, listedAt)
=============================================================================
