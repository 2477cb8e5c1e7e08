---------------------------- MODULE ContentCache ----------------------------
(***************************************************************************)
(* The content cache of cloudsync-vfs (content_cache.rs): callers of       *)
(* ensure_downloaded on a shared cache directory, the per-file download    *)
(* lock and status, the rows of the `files' table they write, and the      *)
(* provider's download, which creates the destination file and streams     *)
(* the body into it.                                                       *)
(*                                                                         *)
(* The cached copy of a file is absent, "full", or "partial": created but  *)
(* not, or no longer, holding the whole content.  One content per file is  *)
(* modelled; versions are the subject of MetadataSync.                     *)
(***************************************************************************)
EXTENDS FilesTable

CONSTANTS Threads,      \* callers of ensure_downloaded
          Files,        \* provider file ids
          Native,       \* cloud-native documents, which cannot be downloaded
          Free,         \* a mutex is not held
          MaxFaults,    \* bound: failing provider calls and database updates
          MaxCrashes    \* bound: crashes of the process

ASSUME ConstantsAssumption ==
    /\ Native \subseteq Files
    /\ Free \notin Threads
    /\ MaxFaults \in Nat
    /\ MaxCrashes \in Nat

VARIABLES
    disk,       \* the cached copy of each file
    status,     \* DownloadStatus in download_locks; "none": no entry yet
    holder,     \* who holds the status mutex of the file
    rows,       \* the files table
    conn,       \* who holds the mutex of the process's connection to it
    pc, file,   \* where each caller is, and with which file
    intact,     \* the caller is streaming, and what it has streamed is still there
    result,     \* what the caller's provider.download returned, until it is looked at
    ret,        \* what the caller's last ensure_downloaded returned
    faults, dbFaults, crashes,
    \* history variable, read by properties only:
    contended   \* files of which two calls have been under way at the same time

threadVars == <<pc, file, intact, result, ret>>
bounds == <<faults, dbFaults, crashes>>
vars == <<disk, status, holder, rows, conn, threadVars, bounds, contended>>

Located == {"lock", "check", "mark", "request", "write", "relock",
            "synced", "stamp", "error"}

TypeOK ==
    /\ disk \in [Files -> {"absent", "partial", "full"}]
    /\ status \in [Files -> {"none", "InProgress", "Complete", "Failed"}]
    /\ holder \in [Files -> Threads \cup {Free}]
    /\ rows \in Table(Files)
    /\ conn \in Threads \cup {Free}
    /\ pc \in [Threads -> Located \cup {"idle"}]
    /\ file \in [Threads -> Files]
    /\ intact \in [Threads -> BOOLEAN]
    /\ result \in [Threads -> {"none", "ok", "native", "error"}]
    /\ ret \in [Threads -> {"none", "Ok", "EIO", "ENOTSUP"}]
    /\ faults \in Nat
    /\ dbFaults \in Nat
    /\ crashes \in Nat
    /\ contended \subseteq Files

Init ==
    /\ disk = [f \in Files |-> "absent"]
    /\ status = [f \in Files |-> "none"]
    /\ holder = [f \in Files |-> Free]
    /\ rows = [f \in Files |-> NoRow]
    /\ conn = Free
    /\ pc = [t \in Threads |-> "idle"]
    /\ file \in [Threads -> Files]
    /\ intact = [t \in Threads |-> FALSE]
    /\ result = [t \in Threads |-> "none"]
    /\ ret = [t \in Threads |-> "none"]
    /\ faults = 0
    /\ dbFaults = 0
    /\ crashes = 0
    /\ contended = {}

-----------------------------------------------------------------------------
(* Steps of a caller t.                                                    *)

Goto(t, l) == pc' = [pc EXCEPT ![t] = l]

\* ensure_downloaded returns r to the caller.
Return(t, r) ==
    /\ pc' = [pc EXCEPT ![t] = "idle"]
    /\ ret' = [ret EXCEPT ![t] = r]

\* with_conn takes the connection's mutex; the caller holds its file's status
\* mutex meanwhile, but for the first of its updates.
LockConn(t) ==
    /\ pc[t] \in {"mark", "synced", "stamp", "error"}
    /\ conn = Free
    /\ conn' = t
    /\ UNCHANGED <<disk, status, holder, rows, threadVars, bounds, contended>>

\* Under that mutex the row is rewritten; a failure is logged and otherwise ignored.
WriteRow(t, new) ==
    /\ conn = t
    /\ conn' = Free
    /\ \/ /\ rows' = new
          /\ UNCHANGED dbFaults
       \/ /\ faults + dbFaults < MaxFaults
          /\ dbFaults' = dbFaults + 1
          /\ UNCHANGED rows

\* A provider or file-system call of the download fails.
Fault ==
    /\ faults + dbFaults < MaxFaults
    /\ faults' = faults + 1

\* ensure_downloaded(f), fast path: a file of that name is on disk.
OpenCached(t, f) ==
    /\ pc[t] = "idle"
    /\ disk[f] # "absent"
    /\ file' = [file EXCEPT ![t] = f]
    /\ Return(t, "Ok")
    /\ UNCHANGED <<disk, status, holder, rows, intact, result, bounds, contended, conn>>

\* Mutant of OpenMissing: the download starts without a look at the disk.
OpenUnchecked(t, f) ==
    /\ pc[t] = "idle"
    /\ file' = [file EXCEPT ![t] = f]
    /\ ret' = [ret EXCEPT ![t] = "none"]
    /\ contended' = contended \cup
         {file[u] : u \in {v \in Threads \ {t} : pc[v] # "idle" /\ file[v] = f}}
    /\ Goto(t, "mark")
    /\ UNCHANGED <<disk, status, holder, rows, intact, result, bounds, conn>>

OpenMissing(t, f) ==
    /\ pc[t] = "idle"
    /\ disk[f] = "absent"
    /\ file' = [file EXCEPT ![t] = f]
    /\ ret' = [ret EXCEPT ![t] = "none"]
    /\ contended' = contended \cup
         {file[u] : u \in {v \in Threads \ {t} : pc[v] # "idle" /\ file[v] = f}}
    /\ Goto(t, "lock")
    /\ UNCHANGED <<disk, status, holder, rows, intact, result, bounds, conn>>

\* Under the map's mutex: find or insert the lock entry of the file.
GetLock(t) ==
    /\ pc[t] = "lock"
    /\ status' = [status EXCEPT ![file[t]] =
                    IF @ = "none" THEN "InProgress" ELSE @]
    /\ Goto(t, "check")
    /\ UNCHANGED <<disk, holder, rows, file, intact, result, ret, bounds, contended, conn>>

\* Mutant of CheckDone: a download that someone has begun counts as done.
CheckDoneTooEarly(t) ==
    /\ pc[t] = "check"
    /\ holder[file[t]] = Free
    /\ disk[file[t]] # "absent" \/ status[file[t]] \in {"Complete", "InProgress"}
    /\ Return(t, "Ok")
    /\ UNCHANGED <<disk, status, holder, rows, file, intact, result, bounds, contended, conn>>

\* Under the status mutex: the file has appeared, or its download completed.
CheckDone(t) ==
    /\ pc[t] = "check"
    /\ holder[file[t]] = Free
    /\ disk[file[t]] # "absent" \/ status[file[t]] = "Complete"
    /\ Return(t, "Ok")
    /\ UNCHANGED <<disk, status, holder, rows, file, intact, result, bounds, contended, conn>>

\* Mutant of CheckProceed: a caller that finds InProgress waits on the condvar, as the
\* comment of DownloadLock says; but the first caller finds InProgress too.
CheckProceedWaits(t) ==
    /\ pc[t] = "check"
    /\ holder[file[t]] = Free
    /\ disk[file[t]] = "absent"
    /\ status[file[t]] = "Failed"
    /\ status' = [status EXCEPT ![file[t]] = "InProgress"]
    /\ Goto(t, "mark")
    /\ UNCHANGED <<disk, holder, rows, file, intact, result, ret, bounds, contended, conn>>

\* Under the status mutex: take the download on (InProgress, or retry after
\* Failed), and release the mutex.
CheckProceed(t) ==
    /\ pc[t] = "check"
    /\ holder[file[t]] = Free
    /\ disk[file[t]] = "absent"
    /\ status[file[t]] \in {"InProgress", "Failed"}
    /\ status' = [status EXCEPT ![file[t]] = "InProgress"]
    /\ Goto(t, "mark")
    /\ UNCHANGED <<disk, holder, rows, file, intact, result, ret, bounds, contended, conn>>

\* update_file_state(Syncing).
MarkSyncing(t) ==
    /\ pc[t] = "mark"
    /\ WriteRow(t, update_file_state(rows, file[t], "Syncing"))
    /\ Goto(t, "request")
    /\ UNCHANGED <<disk, status, holder, file, intact, result, ret, faults, crashes, contended>>

\* provider.download: the metadata say that the file is cloud-native.
RequestNative(t) ==
    /\ pc[t] = "request"
    /\ file[t] \in Native
    /\ result' = [result EXCEPT ![t] = "native"]
    /\ Goto(t, "relock")
    /\ UNCHANGED <<disk, status, holder, rows, file, intact, ret, bounds, contended, conn>>

\* provider.download: a request, or the creation of the file, fails.
RequestFails(t) ==
    /\ pc[t] = "request"
    /\ Fault
    /\ result' = [result EXCEPT ![t] = "error"]
    /\ Goto(t, "relock")
    /\ UNCHANGED <<disk, status, holder, rows, file, intact, ret, dbFaults, crashes, contended, conn>>

\* provider.download: File::create truncates what is there, which takes away
\* the bytes that other callers have streamed, if they have streamed any.
CreateDest(t) ==
    /\ pc[t] = "request"
    /\ file[t] \notin Native
    /\ disk' = [disk EXCEPT ![file[t]] = "partial"]
    /\ \E lost \in SUBSET {u \in Threads \ {t} : pc[u] = "write" /\ file[u] = file[t]} :
         intact' = [u \in Threads |-> IF u = t THEN TRUE
                                      ELSE IF u \in lost THEN FALSE ELSE intact[u]]
    /\ Goto(t, "write")
    /\ UNCHANGED <<status, holder, rows, file, result, ret, bounds, contended, conn>>

\* provider.download: the body is written to its end.
StreamDone(t) ==
    /\ pc[t] = "write"
    /\ disk' = [disk EXCEPT ![file[t]] = IF intact[t] THEN "full" ELSE @]
    /\ intact' = [intact EXCEPT ![t] = FALSE]
    /\ result' = [result EXCEPT ![t] = "ok"]
    /\ Goto(t, "relock")
    /\ UNCHANGED <<status, holder, rows, file, ret, bounds, contended, conn>>

\* provider.download: the body breaks off and the file stays as it is, or the
\* whole body is written and sync_all fails.
StreamFails(t) ==
    /\ pc[t] = "write"
    /\ Fault
    /\ disk' \in {disk, [disk EXCEPT ![file[t]] = IF intact[t] THEN "full" ELSE @]}
    /\ intact' = [intact EXCEPT ![t] = FALSE]
    /\ result' = [result EXCEPT ![t] = "error"]
    /\ Goto(t, "relock")
    /\ UNCHANGED <<status, holder, rows, file, ret, dbFaults, crashes, contended, conn>>

\* Mutant of RelockOk: success is recorded whatever the download returned.
RelockAny(t) ==
    /\ pc[t] = "relock"
    /\ result[t] \in {"ok", "error"}
    /\ holder[file[t]] = Free
    /\ holder' = [holder EXCEPT ![file[t]] = t]
    /\ result' = [result EXCEPT ![t] = "none"]
    /\ status' = [status EXCEPT ![file[t]] = "Complete"]
    /\ Goto(t, "synced")
    /\ UNCHANGED <<disk, rows, file, intact, ret, bounds, contended, conn>>

\* The status mutex is taken again; it is held until the function returns.
RelockOk(t) ==
    /\ pc[t] = "relock"
    /\ result[t] = "ok"
    /\ holder[file[t]] = Free
    /\ holder' = [holder EXCEPT ![file[t]] = t]
    /\ result' = [result EXCEPT ![t] = "none"]
    /\ status' = [status EXCEPT ![file[t]] = "Complete"]
    /\ Goto(t, "synced")
    /\ UNCHANGED <<disk, rows, file, intact, ret, bounds, contended, conn>>

\* A cloud-native file: the row is left as it is.
RelockNative(t) ==
    /\ pc[t] = "relock"
    /\ result[t] = "native"
    /\ holder[file[t]] = Free
    /\ result' = [result EXCEPT ![t] = "none"]
    /\ status' = [status EXCEPT ![file[t]] = "Failed"]
    /\ Return(t, "ENOTSUP")
    /\ UNCHANGED <<disk, holder, rows, file, intact, bounds, contended, conn>>

RelockError(t) ==
    /\ pc[t] = "relock"
    /\ result[t] = "error"
    /\ holder[file[t]] = Free
    /\ holder' = [holder EXCEPT ![file[t]] = t]
    /\ result' = [result EXCEPT ![t] = "none"]
    /\ status' = [status EXCEPT ![file[t]] = "Failed"]
    /\ Goto(t, "error")
    /\ UNCHANGED <<disk, rows, file, intact, ret, bounds, contended, conn>>

\* update_file_state(Synced).
MarkSynced(t) ==
    /\ pc[t] = "synced"
    /\ WriteRow(t, update_file_state(rows, file[t], "Synced"))
    /\ Goto(t, "stamp")
    /\ UNCHANGED <<disk, status, holder, file, intact, result, ret, faults, crashes, contended>>

\* update_synced_at, in a second transaction; then the mutex is released.
StampSynced(t) ==
    /\ pc[t] = "stamp"
    /\ WriteRow(t, update_synced_at(rows, file[t]))
    /\ holder' = [holder EXCEPT ![file[t]] = Free]
    /\ Return(t, "Ok")
    /\ UNCHANGED <<disk, status, file, intact, result, faults, crashes, contended>>

\* Mutant of MarkError: the error is returned before the row is updated.
ReturnError(t) ==
    /\ pc[t] = "error"
    /\ conn = t
    /\ conn' = Free
    /\ holder' = [holder EXCEPT ![file[t]] = Free]
    /\ Return(t, "EIO")
    /\ UNCHANGED <<disk, status, rows, file, intact, result, bounds, contended>>

\* update_file_state(Error); then the mutex is released.
MarkError(t) ==
    /\ pc[t] = "error"
    /\ WriteRow(t, update_file_state(rows, file[t], "Error"))
    /\ holder' = [holder EXCEPT ![file[t]] = Free]
    /\ Return(t, "EIO")
    /\ UNCHANGED <<disk, status, file, intact, result, faults, crashes, contended>>

-----------------------------------------------------------------------------
(* The other writers of the table, and crashes.                            *)

\* MetadataSyncer stores an item of the provider, or applies a deletion, with the
\* same connection.  The cached copy is not touched by either.
MetadataUpsert(f) ==
    /\ conn = Free
    /\ rows' = upsert_cloud_item(rows, f, 1)
    /\ UNCHANGED <<disk, status, holder, threadVars, bounds, contended, conn>>

MetadataDelete(f) ==
    /\ conn = Free
    /\ rows' = delete_if_present(rows, f)
    /\ UNCHANGED <<disk, status, holder, threadVars, bounds, contended, conn>>

\* DaemonHandler: SetCloudOnly, and SetPinned with pinned = false.  The daemon is
\* another process, with a connection of its own.
SetCloudOnly(f) ==
    /\ HasRow(rows, f)
    /\ rows' = update_file_state(rows, f, "CloudOnly")
    /\ UNCHANGED <<disk, status, holder, threadVars, bounds, contended, conn>>

\* DaemonHandler: SetPinned with pinned = true.
SetPinned(f) ==
    /\ HasRow(rows, f)
    /\ rows[f].state = "CloudOnly"
    /\ rows' = update_file_state(rows, f, "Pending")
    /\ UNCHANGED <<disk, status, holder, threadVars, bounds, contended, conn>>

\* The process is killed and mounts again: disk and table survive.
Crash ==
    /\ crashes < MaxCrashes
    /\ crashes' = crashes + 1
    /\ status' = [f \in Files |-> "none"]
    /\ holder' = [f \in Files |-> Free]
    /\ conn' = Free
    /\ pc' = [t \in Threads |-> "idle"]
    /\ intact' = [t \in Threads |-> FALSE]
    /\ result' = [t \in Threads |-> "none"]
    /\ ret' = [t \in Threads |-> "none"]
    /\ UNCHANGED <<disk, rows, file, faults, dbFaults, contended>>

\* The rest of a call that ensure_downloaded has begun.
Proceed(t) ==
    \/ GetLock(t) \/ CheckDone(t) \/ CheckProceed(t) \/ MarkSyncing(t)
    \/ RequestNative(t) \/ RequestFails(t) \/ CreateDest(t)
    \/ StreamDone(t) \/ StreamFails(t)
    \/ RelockOk(t) \/ RelockNative(t) \/ RelockError(t)
    \/ MarkSynced(t) \/ StampSynced(t) \/ MarkError(t)

Environment ==
    \/ \E t \in Threads, f \in Files : OpenCached(t, f) \/ OpenMissing(t, f)
    \/ \E f \in Files : MetadataUpsert(f) \/ MetadataDelete(f)
                          \/ SetCloudOnly(f) \/ SetPinned(f)
    \/ Crash

Next == (\E t \in Threads : Proceed(t) \/ LockConn(t)) \/ Environment

Spec == Init /\ [][Next]_vars

\* A caller that is not blocked on a mutex runs on, and a download ends with a
\* result.  The connection's mutex, which is free again and again, is not withheld
\* from a caller for ever.  Callers come and go as they like.  (Each step of Proceed
\* changes pc.)
FairSpec ==
    /\ Spec
    /\ \A t \in Threads : WF_pc(Proceed(t)) /\ SF_conn(LockConn(t))

-----------------------------------------------------------------------------
(* Properties.                                                             *)

\* ensure_downloaded never returns the path of a file that is not there: the
\* status "Complete", which alone is trusted without a look at the disk, is
\* only ever set for a file that was created, by whatever interleaving.
OkMeansPresent ==
    \A t \in Threads : ret[t] = "Ok" => disk[file[t]] # "absent"

Downloading(t, f) ==
    /\ file[t] = f
    /\ pc[t] \in {"request", "write", "relock", "synced", "error"}

\* A row says Syncing only while some caller is downloading the file
\* (FileState::Syncing: "File is currently being uploaded or downloaded"):
\* however the updates of several callers interleave, the last of them to
\* finish replaces the state.  Of files that can be downloaded, and as long as
\* no crash and no failed update has intervened.
SyncingMeansDownloading ==
    crashes = 0 /\ dbFaults = 0 =>
        \A f \in Files \ Native :
            rows[f].state = "Syncing" => \E t \in Threads : Downloading(t, f)

\* Every call of ensure_downloaded returns: the callers never wait for each other for
\* ever, on the status of a download, or on a file's status mutex, which its holder
\* keeps while it waits for the mutex of the connection.
CallsReturn == \A t \in Threads : (pc[t] # "idle") ~> (pc[t] = "idle")

\* As long as calls for the file do not overlap, a row that says Synced has the
\* whole content behind it, across failed downloads, failed updates and crashes
\* (FileState::Synced: "fully synchronized and available locally").
SyncedMeansFull ==
    \A f \in Files \ contended : rows[f].state = "Synced" => disk[f] = "full"

\* As long as calls for the file do not overlap, a complete cached copy is
\* never truncated again.
FullStaysFull ==
    [][\A f \in Files \ contended' : disk[f] = "full" => disk'[f] = "full"]_vars

\* What ensure_downloaded says of itself: it "ensures the file is downloaded locally,
\* returning the cached path", and "if another thread is downloading, waits for
\* completion".  The path that a caller was given names the whole file.
OkMeansDownloaded ==
    \A t \in Threads : ret[t] = "Ok" => disk[file[t]] = "full"

\* What ContentCache says of itself: "Per-file locking prevents concurrent duplicate
\* downloads."
NoDuplicateDownloads ==
    \A t, u \in Threads :
        (/\ pc[t] \in {"request", "write"}
         /\ pc[u] \in {"request", "write"}
         /\ file[t] = file[u])
        => t = u

-----------------------------------------------------------------------------
(***************************************************************************)
(* Inductive invariants (proved in ContentCache_proofs).                   *)
(***************************************************************************)

\* A caller that has created the file and not failed, or has been told that
\* someone completed it.
HasCreated(t) ==
    \/ pc[t] \in {"write", "synced", "stamp"}
    \/ pc[t] = "relock" /\ result[t] = "ok"
    \/ ret[t] = "Ok"

PresentInv ==
    /\ TypeOK
    /\ \A f \in Files : status[f] = "Complete" => disk[f] # "absent"
    /\ \A t \in Threads : HasCreated(t) => disk[file[t]] # "absent"

\* The only call for a file that is under way.
Alone(t) ==
    /\ pc[t] # "idle" => \A u \in Threads : pc[u] # "idle" /\ file[u] = file[t] => u = t
    /\ pc[t] \in {"mark", "request"} => disk[file[t]] = "absent"
    /\ pc[t] = "write" => intact[t] /\ disk[file[t]] = "partial"
    /\ pc[t] = "relock" /\ result[t] = "ok" => disk[file[t]] = "full"
    /\ pc[t] \in {"synced", "stamp"} => disk[file[t]] = "full"

\* Its stages.
AloneInv ==
    /\ TypeOK
    /\ SyncedMeansFull
    /\ \A t \in Threads : file[t] \notin contended => Alone(t)

\* Only a cloud-native file ends a download with its row left as it was.
SyncingInv ==
    /\ TypeOK
    /\ SyncingMeansDownloading
    /\ \A t \in Threads : pc[t] = "relock" /\ result[t] = "native" => file[t] \in Native
=============================================================================
