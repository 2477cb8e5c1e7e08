------------------------ MODULE ContentCache_proofs ------------------------
(***************************************************************************)
(* Proofs about ContentCache, for every set of callers and files.          *)
(***************************************************************************)
EXTENDS ContentCache, TLAPS

\* The closures on the files table keep its type.
LEMMA TableOps ==
    ASSUME NEW S, NEW r \in Table(S), NEW f \in S, NEW v \in Nat \ {0}, NEW s \in FileState
    PROVE  /\ upsert_cloud_item(r, f, v) \in Table(S)
           /\ delete_if_present(r, f) \in Table(S)
           /\ update_file_state(r, f, s) \in Table(S)
           /\ update_synced_at(r, f) \in Table(S)
<1> USE DEF Table, Row, NoRow, HasRow, create_file, update_file, delete_file
<1>1. upsert_cloud_item(r, f, v) \in Table(S)
  BY DEF upsert_cloud_item, cloud_item_to_db_file, FileState
<1>2. delete_if_present(r, f) \in Table(S)
  BY DEF delete_if_present
<1>3. update_file_state(r, f, s) \in Table(S)
  BY DEF update_file_state
<1>4. update_synced_at(r, f) \in Table(S)
  BY DEF update_synced_at
<1> QED BY <1>1, <1>2, <1>3, <1>4

\* No closure but update_file_state(x) makes a row say x, be it Synced or Syncing.
LEMMA StateOnly ==
    ASSUME NEW S, NEW r \in Table(S), NEW f \in S, NEW v \in Nat \ {0},
           NEW x \in {"Synced", "Syncing"}, NEW s \in FileState \ {x}, NEW g \in S
    PROVE  /\ upsert_cloud_item(r, f, v)[g].state = x => r[g].state = x
           /\ delete_if_present(r, f)[g].state = x => r[g].state = x
           /\ update_file_state(r, f, s)[g].state = x => r[g].state = x
           /\ update_synced_at(r, f)[g].state = x => r[g].state = x
<1> USE DEF Table, Row, NoRow, HasRow, create_file, update_file, delete_file
<1>1. upsert_cloud_item(r, f, v)[g].state = x => r[g].state = x
  BY DEF upsert_cloud_item, cloud_item_to_db_file
<1>2. delete_if_present(r, f)[g].state = x => r[g].state = x
  BY DEF delete_if_present
<1>3. update_file_state(r, f, s)[g].state = x => r[g].state = x
  BY DEF update_file_state
<1>4. update_synced_at(r, f)[g].state = x => r[g].state = x
  BY DEF update_synced_at
<1> QED BY <1>1, <1>2, <1>3, <1>4

\* No closure but update_file_state(Synced) makes a row say Synced.
LEMMA SyncedOnly ==
    ASSUME NEW S, NEW r \in Table(S), NEW f \in S, NEW v \in Nat \ {0},
           NEW s \in FileState \ {"Synced"}, NEW g \in S
    PROVE  /\ upsert_cloud_item(r, f, v)[g].state = "Synced" => r[g].state = "Synced"
           /\ delete_if_present(r, f)[g].state = "Synced" => r[g].state = "Synced"
           /\ update_file_state(r, f, s)[g].state = "Synced" => r[g].state = "Synced"
           /\ update_synced_at(r, f)[g].state = "Synced" => r[g].state = "Synced"
BY "Synced" \in {"Synced", "Syncing"}, StateOnly

-----------------------------------------------------------------------------
\* The initial states are well typed.
LEMMA InitType == Init => TypeOK
<1> SUFFICES ASSUME Init PROVE TypeOK
  OBVIOUS
<1>1. rows \in Table(Files)
  BY DEF Init, Table
<1> QED BY <1>1 DEF Init, TypeOK

\* A step of a caller keeps the types.
LEMMA ProceedType == ASSUME TypeOK, NEW t \in Threads, Proceed(t) PROVE TypeOK'
<1> USE DEF threadVars, bounds, Goto, Return, WriteRow, Fault, Located
<1>0. file[t] \in Files /\ rows \in Table(Files)
  BY DEF TypeOK
<1>1. rows' \in Table(Files)
  <2>1. /\ update_file_state(rows, file[t], "Syncing") \in Table(Files)
        /\ update_file_state(rows, file[t], "Synced") \in Table(Files)
        /\ update_file_state(rows, file[t], "Error") \in Table(Files)
        /\ update_synced_at(rows, file[t]) \in Table(Files)
    BY <1>0, 1 \in Nat \ {0}, TableOps DEF FileState
  <2> QED BY <1>0, <2>1 DEF Proceed, GetLock, CheckDone, CheckProceed, MarkSyncing, RequestNative,
     RequestFails, CreateDest, StreamDone, StreamFails, RelockOk, RelockNative,
     RelockError, MarkSynced, StampSynced, MarkError
<1>2. CASE GetLock(t) \/ CheckDone(t) \/ CheckProceed(t)
  BY <1>1, <1>2 DEF TypeOK, GetLock, CheckDone, CheckProceed
<1>3. CASE MarkSyncing(t) \/ MarkSynced(t) \/ StampSynced(t) \/ MarkError(t)
  BY <1>1, <1>3 DEF TypeOK, MarkSyncing, MarkSynced, StampSynced, MarkError
<1>4. CASE RequestNative(t) \/ RequestFails(t) \/ StreamDone(t) \/ StreamFails(t)
  <2>1. CASE RequestNative(t) \/ RequestFails(t)
    BY <1>1, <2>1 DEF TypeOK, RequestNative, RequestFails
  <2>2. CASE StreamDone(t) \/ StreamFails(t)
    <3>1. intact' = [intact EXCEPT ![t] = FALSE]
      BY <2>2 DEF StreamDone, StreamFails
    <3>2. intact' \in [Threads -> BOOLEAN]
      BY <3>1, Zenon DEF TypeOK
    <3> QED BY <1>1, <2>2, <3>2 DEF TypeOK, StreamDone, StreamFails
  <2> QED BY <1>4, <2>1, <2>2
<1>5. CASE CreateDest(t)
  <2>1. PICK lost \in SUBSET {u \in Threads \ {t} : pc[u] = "write" /\ file[u] = file[t]} :
          intact' = [u \in Threads |-> IF u = t THEN TRUE
                                       ELSE IF u \in lost THEN FALSE ELSE intact[u]]
    BY <1>5 DEF CreateDest
  <2>2. \A u \in Threads : (IF u = t THEN TRUE ELSE IF u \in lost THEN FALSE ELSE intact[u])
                             \in BOOLEAN
    BY DEF TypeOK
  <2>3. intact' \in [Threads -> BOOLEAN]
    BY <2>1, <2>2, Zenon
  <2> QED BY <1>1, <1>5, <2>3 DEF TypeOK, CreateDest
<1>6. CASE RelockOk(t) \/ RelockNative(t) \/ RelockError(t)
  BY <1>1, <1>6 DEF TypeOK, RelockOk, RelockNative, RelockError
<1> QED BY <1>2, <1>3, <1>4, <1>5, <1>6 DEF Proceed

\* A step of the environment keeps the types.
LEMMA EnvironmentType == ASSUME TypeOK, Environment PROVE TypeOK'
<1> USE DEF threadVars, bounds, Goto, Return, Located
<1>1. CASE \E t \in Threads, f \in Files : OpenCached(t, f) \/ OpenMissing(t, f)
  BY <1>1 DEF TypeOK, OpenCached, OpenMissing
<1>2. CASE Crash
  BY <1>2 DEF TypeOK, Crash
<1>3. ASSUME NEW f \in Files,
             MetadataUpsert(f) \/ MetadataDelete(f) \/ SetCloudOnly(f) \/ SetPinned(f)
      PROVE  TypeOK'
  <2>1. rows' \in Table(Files)
    <3>1. /\ upsert_cloud_item(rows, f, 1) \in Table(Files)
          /\ delete_if_present(rows, f) \in Table(Files)
          /\ update_file_state(rows, f, "CloudOnly") \in Table(Files)
          /\ update_file_state(rows, f, "Pending") \in Table(Files)
      BY 1 \in Nat \ {0}, TableOps DEF TypeOK, FileState
    <3> QED BY <1>3, <3>1 DEF MetadataUpsert, MetadataDelete, SetCloudOnly, SetPinned
  <2> QED BY <1>3, <2>1 DEF TypeOK, MetadataUpsert, MetadataDelete, SetCloudOnly, SetPinned
<1> QED BY <1>1, <1>2, <1>3 DEF Environment

\* A step that takes the connection's mutex, and a stuttering step, change nothing else.
Quiet == UNCHANGED <<disk, status, holder, rows, threadVars, bounds, contended>>

\* Every step is one of a caller, one of its environment, or quiet.
LEMMA NextCases ==
    ASSUME [Next]_vars
    PROVE  (\E t \in Threads : Proceed(t)) \/ Environment \/ Quiet
<1>1. CASE UNCHANGED vars
  BY <1>1 DEF vars, Quiet, threadVars, bounds
<1>2. ASSUME NEW t \in Threads, LockConn(t) PROVE Quiet
  BY <1>2 DEF LockConn, Quiet
<1> QED BY <1>1, <1>2 DEF Next

\* Every step keeps the types.
LEMMA NextType == TypeOK /\ [Next]_vars => TypeOK'
<1>1. TypeOK /\ UNCHANGED vars => TypeOK'
  BY DEF vars, threadVars, bounds, TypeOK
<1>2. ASSUME TypeOK, NEW t \in Threads, LockConn(t) PROVE TypeOK'
  BY <1>2 DEF LockConn, threadVars, bounds, TypeOK
<1> QED BY <1>1, <1>2, ProceedType, EnvironmentType DEF Next

\* Every reachable state is well typed.
THEOREM TypeCorrect == Spec => []TypeOK
BY InitType, NextType, PTL DEF Spec

-----------------------------------------------------------------------------
\* The cached copy of a file never disappears again.
LEMMA DiskNeverAbsentAgain ==
    ASSUME TypeOK, [Next]_vars, NEW f \in Files, disk[f] # "absent"
    PROVE  disk'[f] # "absent"
<1> USE DEF threadVars, bounds
<1>1. ASSUME NEW t \in Threads, Proceed(t) PROVE disk'[f] # "absent"
  BY <1>1 DEF TypeOK, Proceed, GetLock, CheckDone, CheckProceed, MarkSyncing, RequestNative,
     RequestFails, CreateDest, StreamDone, StreamFails, RelockOk, RelockNative,
     RelockError, MarkSynced, StampSynced, MarkError
<1>2. CASE Environment
  BY <1>2 DEF Environment, OpenCached, OpenMissing, MetadataUpsert, MetadataDelete,
     SetCloudOnly, SetPinned, Crash
<1>3. CASE Quiet
  BY <1>3 DEF Quiet
<1> QED BY <1>1, <1>2, <1>3, NextCases

\* PresentInv is inductive: a caller comes to trust a file only after it, or
\* the one that completed the download, has created it.
LEMMA PresentStep == PresentInv /\ [Next]_vars => PresentInv'
<1> SUFFICES ASSUME PresentInv, [Next]_vars PROVE PresentInv'
  OBVIOUS
<1> USE DEF threadVars, bounds, Goto, Return
<1>0. TypeOK /\ TypeOK'
  BY NextType DEF PresentInv
<1>1. \A f \in Files : disk[f] # "absent" => disk'[f] # "absent"
  BY <1>0, DiskNeverAbsentAgain
<1>2. ASSUME NEW t \in Threads, Proceed(t)
      PROVE  /\ \A f \in Files : status'[f] = "Complete" => disk'[f] # "absent"
             /\ \A u \in Threads : HasCreated(u)' => disk'[file'[u]] # "absent"
  <2>0. file[t] \in Files /\ file' = file /\ file \in [Threads -> Files]
    BY <1>0, <1>2 DEF TypeOK, Proceed, GetLock, CheckDone, CheckProceed, MarkSyncing, RequestNative,
       RequestFails, CreateDest, StreamDone, StreamFails, RelockOk, RelockNative,
       RelockError, MarkSynced, StampSynced, MarkError
  <2>1. \A u \in Threads \ {t} : pc'[u] = pc[u] /\ result'[u] = result[u] /\ ret'[u] = ret[u]
    <3>1. /\ pc \in [Threads -> Located \cup {"idle"}]
          /\ result \in [Threads -> {"none", "ok", "native", "error"}]
          /\ ret \in [Threads -> {"none", "Ok", "EIO", "ENOTSUP"}]
      BY <1>0 DEF TypeOK
    <3>2. /\ \E l : pc' = [pc EXCEPT ![t] = l]
          /\ result' = result \/ \E r : result' = [result EXCEPT ![t] = r]
          /\ ret' = ret \/ \E r : ret' = [ret EXCEPT ![t] = r]
      BY <1>2 DEF Proceed, GetLock, CheckDone, CheckProceed,
         MarkSyncing, RequestNative, RequestFails, CreateDest, StreamDone, StreamFails, RelockOk,
         RelockNative, RelockError, MarkSynced, StampSynced, MarkError
    <3> QED BY <3>1, <3>2
  <2>2. HasCreated(t)' => disk'[file[t]] # "absent"
    <3>1. CASE CreateDest(t)
      BY <1>0, <2>0, <3>1 DEF CreateDest, TypeOK
    <3>2. CASE CheckDone(t)
      BY <1>0, <1>1, <2>0, <3>2 DEF CheckDone, PresentInv
    <3>3. CASE ~ CreateDest(t) /\ ~ CheckDone(t)
      <4>1. HasCreated(t)' => HasCreated(t)
        BY <1>0, <1>2, <3>3 DEF TypeOK, HasCreated, Proceed, GetLock, CheckProceed,
           MarkSyncing, RequestNative, RequestFails, StreamDone, StreamFails, RelockOk,
           RelockNative, RelockError, MarkSynced, StampSynced, MarkError
      <4> QED BY <1>1, <2>0, <4>1 DEF PresentInv
    <3> QED BY <3>1, <3>2, <3>3
  <2>3. \A u \in Threads \ {t} : HasCreated(u)' => HasCreated(u)
    BY <2>1 DEF HasCreated
  <2>4. \A f \in Files : status'[f] = "Complete" =>
          status[f] = "Complete" \/ (f = file[t] /\ HasCreated(t))
    <3>1. CASE RelockOk(t)
      BY <1>0, <3>1 DEF TypeOK, RelockOk, HasCreated
    <3>2. CASE GetLock(t)
      BY <1>0, <3>2 DEF TypeOK, GetLock
    <3>3. CASE CheckProceed(t) \/ RelockNative(t) \/ RelockError(t)
      BY <1>0, <3>3 DEF TypeOK, CheckProceed, RelockNative, RelockError
    <3>4. CASE UNCHANGED status
      BY <3>4
    <3> QED BY <1>2, <3>1, <3>2, <3>3, <3>4 DEF Proceed, CheckDone, MarkSyncing, RequestNative,
         RequestFails, CreateDest, StreamDone, StreamFails, MarkSynced, StampSynced, MarkError
  <2> QED BY <1>1, <2>0, <2>2, <2>3, <2>4 DEF PresentInv
<1>3. CASE Environment \/ Quiet
  <2>1. \A f \in Files : status'[f] = "Complete" => status[f] = "Complete"
    BY <1>0, <1>3 DEF TypeOK, Quiet, Environment, OpenCached, OpenMissing, MetadataUpsert,
       MetadataDelete, SetCloudOnly, SetPinned, Crash
  <2>2. \A u \in Threads : HasCreated(u)' =>
          \/ file'[u] = file[u] /\ HasCreated(u)
          \/ disk[file'[u]] # "absent" /\ file'[u] \in Files
    BY <1>0, <1>3 DEF TypeOK, HasCreated, Quiet, Environment, OpenCached, OpenMissing,
       MetadataUpsert, MetadataDelete, SetCloudOnly, SetPinned, Crash
  <2>3. \A u \in Threads : file[u] \in Files
    BY <1>0 DEF TypeOK
  <2> QED BY <1>0, <1>1, <2>1, <2>2, <2>3 DEF PresentInv
<1> QED BY <1>0, <1>2, <1>3, NextCases DEF PresentInv

\* ensure_downloaded never returns the path of a file that does not exist.
THEOREM OkPresent == Spec => []OkMeansPresent
<1>1. Init => PresentInv
  BY InitType DEF Init, PresentInv, HasCreated
<1>2. PresentInv => OkMeansPresent
  BY DEF PresentInv, HasCreated, OkMeansPresent
<1> QED BY <1>1, <1>2, PresentStep, PTL DEF Spec

-----------------------------------------------------------------------------
\* What a step of the caller t leaves alone: the other callers and files.
LEMMA ProceedFrame ==
    ASSUME TypeOK, NEW t \in Threads, Proceed(t)
    PROVE  /\ file' = file /\ contended' = contended /\ crashes' = crashes
           /\ file[t] \in Files /\ pc[t] # "idle"
           /\ \A u \in Threads \ {t} : pc'[u] = pc[u] /\ result'[u] = result[u]
           /\ \A u \in Threads \ {t} : file[u] # file[t] => intact'[u] = intact[u]
           /\ \A f \in Files \ {file[t]} : disk'[f] = disk[f]
<1> USE DEF Proceed, GetLock, CheckDone, CheckProceed, MarkSyncing, RequestNative,
       RequestFails, CreateDest, StreamDone, StreamFails, RelockOk, RelockNative,
       RelockError, MarkSynced, StampSynced, MarkError, threadVars, bounds, Goto, Return
<1>1. file' = file /\ contended' = contended /\ crashes' = crashes
  OBVIOUS
<1>2. file[t] \in Files /\ pc[t] # "idle"
  BY DEF TypeOK
<1>3. \A u \in Threads \ {t} : pc'[u] = pc[u] /\ result'[u] = result[u]
  <2>1. /\ pc \in [Threads -> Located \cup {"idle"}]
        /\ result \in [Threads -> {"none", "ok", "native", "error"}]
    BY DEF TypeOK
  <2>2. /\ \E l : pc' = [pc EXCEPT ![t] = l]
        /\ result' = result \/ \E r : result' = [result EXCEPT ![t] = r]
    OBVIOUS
  <2> QED BY <2>1, <2>2
<1>4. ASSUME NEW u \in Threads \ {t}, file[u] # file[t] PROVE intact'[u] = intact[u]
  <2>1. intact \in [Threads -> BOOLEAN]
    BY DEF TypeOK
  <2>2. CASE CreateDest(t)
    BY <1>4, <2>2
  <2>3. CASE StreamDone(t) \/ StreamFails(t)
    <3>1. intact' = [intact EXCEPT ![t] = FALSE]
      BY <2>3
    <3> QED BY <1>4, <2>1, <3>1, Zenon
  <2>4. CASE intact' = intact
    BY <2>4
  <2> QED BY <2>2, <2>3, <2>4
<1>5. \A f \in Files \ {file[t]} : disk'[f] = disk[f]
  <2>1. disk \in [Files -> {"absent", "partial", "full"}]
    BY DEF TypeOK
  <2>2. disk' = disk \/ \E c : disk' = [disk EXCEPT ![file[t]] = c]
    OBVIOUS
  <2> QED BY <2>1, <2>2
<1> QED BY <1>1, <1>2, <1>3, <1>4, <1>5

\* The stages of a call that is the only one for its file: what it found absent
\* stays absent until it creates the file, and nobody truncates what it wrote.
LEMMA ProceedAlone ==
    ASSUME TypeOK, TypeOK', NEW t \in Threads, Proceed(t), Alone(t)
    PROVE  /\ Alone(t)'
           /\ disk[file[t]] = "full" => disk'[file[t]] = "full"
<1> USE DEF threadVars, bounds, Goto, Return, WriteRow
<1> DEFINE Stages ==
      /\ pc[t] \in {"mark", "request"} => disk[file[t]] = "absent"
      /\ pc[t] = "write" => intact[t] /\ disk[file[t]] = "partial"
      /\ pc[t] = "relock" /\ result[t] = "ok" => disk[file[t]] = "full"
      /\ pc[t] \in {"synced", "stamp"} => disk[file[t]] = "full"
<1>0. file[t] \in Files /\ file' = file /\ Stages
  BY ProceedFrame DEF Alone
<1>1. \A u \in Threads : pc'[u] # "idle" /\ file'[u] = file'[t] => u = t
  BY ProceedFrame DEF Alone
<1>2. disk[file[t]] = "full" => disk'[file[t]] = "full"
  <2>1. CASE CreateDest(t) \/ StreamDone(t) \/ StreamFails(t)
    BY <1>0, <2>1 DEF CreateDest, StreamDone, StreamFails
  <2>2. CASE UNCHANGED disk
    BY <1>0, <2>2
  <2> QED BY <2>1, <2>2 DEF Proceed, GetLock, CheckDone, CheckProceed, MarkSyncing,
       RequestNative, RequestFails, RelockOk, RelockNative, RelockError,
       MarkSynced, StampSynced, MarkError
<1>3. Stages'
  <2>1. CASE GetLock(t) \/ CheckDone(t) \/ CheckProceed(t) \/ MarkSyncing(t)
    BY <1>0, <2>1 DEF TypeOK, GetLock, CheckDone, CheckProceed, MarkSyncing
  <2>2. CASE RequestNative(t) \/ RequestFails(t) \/ StreamFails(t)
    BY <1>0, <2>2 DEF TypeOK, RequestNative, RequestFails, StreamFails
  <2>3. CASE CreateDest(t)
    <3>1. pc'[t] = "write" /\ disk'[file[t]] = "partial"
      BY <1>0, <2>3 DEF TypeOK, CreateDest
    <3>2. intact'[t]
      BY <2>3 DEF CreateDest
    <3> QED BY <1>0, <3>1, <3>2
  <2>4. CASE StreamDone(t)
    BY <1>0, <2>4 DEF TypeOK, StreamDone
  <2>5. CASE RelockOk(t) \/ RelockNative(t) \/ RelockError(t)
    BY <1>0, <2>5 DEF TypeOK, RelockOk, RelockNative, RelockError
  <2>6. CASE MarkSynced(t) \/ StampSynced(t) \/ MarkError(t)
    BY <1>0, <2>6 DEF TypeOK, MarkSynced, StampSynced, MarkError
  <2> QED BY <2>1, <2>2, <2>3, <2>4, <2>5, <2>6 DEF Proceed
<1> QED BY <1>1, <1>2, <1>3 DEF Alone

\* Only MarkSynced makes a row say Synced, and only the caller's.
LEMMA ProceedSynced ==
    ASSUME TypeOK, NEW t \in Threads, Proceed(t), NEW f \in Files, rows'[f].state = "Synced"
    PROVE  rows[f].state = "Synced" \/ (f = file[t] /\ pc[t] = "synced")
<1> USE DEF WriteRow, bounds
<1>0. file[t] \in Files /\ rows \in Table(Files)
  BY DEF TypeOK
<1>1. CASE MarkSynced(t)
  <2>1. f # file[t] => update_file_state(rows, file[t], "Synced")[f] = rows[f]
    BY <1>0 DEF update_file_state, update_file, Table
  <2> QED BY <1>1, <2>1 DEF MarkSynced
<1>2. CASE MarkSyncing(t) \/ StampSynced(t) \/ MarkError(t)
  <2>1. {"Syncing", "Error"} \subseteq FileState \ {"Synced"} /\ 1 \in Nat \ {0}
    BY DEF FileState
  <2>2. /\ update_file_state(rows, file[t], "Syncing")[f].state = "Synced"
             => rows[f].state = "Synced"
        /\ update_file_state(rows, file[t], "Error")[f].state = "Synced"
             => rows[f].state = "Synced"
        /\ update_synced_at(rows, file[t])[f].state = "Synced" => rows[f].state = "Synced"
    BY <1>0, <2>1, SyncedOnly
  <2> QED BY <1>2, <2>2 DEF MarkSyncing, StampSynced, MarkError
<1>3. CASE UNCHANGED rows
  BY <1>3
<1> QED BY <1>1, <1>2, <1>3 DEF Proceed, GetLock, CheckDone, CheckProceed, RequestNative,
     RequestFails, CreateDest, StreamDone, StreamFails, RelockOk, RelockNative, RelockError

\* AloneInv is kept by the steps of a caller.
LEMMA AloneProceed ==
    ASSUME AloneInv, TypeOK', NEW t \in Threads, Proceed(t)
    PROVE  /\ AloneInv'
           /\ \A f \in Files \ contended' : disk[f] = "full" => disk'[f] = "full"
<1>0. TypeOK
  BY DEF AloneInv
<1>F. /\ file' = file /\ contended' = contended /\ crashes' = crashes
      /\ file[t] \in Files /\ pc[t] # "idle"
      /\ \A u \in Threads \ {t} : pc'[u] = pc[u] /\ result'[u] = result[u]
      /\ \A u \in Threads \ {t} : file[u] # file[t] => intact'[u] = intact[u]
      /\ \A f \in Files \ {file[t]} : disk'[f] = disk[f]
  BY <1>0, ProceedFrame
<1>A. file[t] \notin contended => Alone(t)
  BY DEF AloneInv
<1>1. ASSUME NEW u \in Threads, file'[u] \notin contended' PROVE Alone(u)'
  <2>0. file[u] \in Files /\ file[u] \notin contended /\ Alone(u)
    BY <1>0, <1>1, <1>F DEF TypeOK, AloneInv
  <2>1. CASE u = t
    BY <1>0, <1>A, <2>0, <2>1, ProceedAlone
  <2>2. CASE u # t /\ file[u] = file[t]
    <3>1. pc'[u] = "idle"
      BY <1>A, <1>F, <2>0, <2>2 DEF Alone
    <3> QED BY <3>1 DEF Alone
  <2>3. CASE u # t /\ file[u] # file[t]
    <3>1. /\ pc'[u] = pc[u] /\ result'[u] = result[u] /\ intact'[u] = intact[u]
          /\ disk'[file[u]] = disk[file[u]]
      BY <1>F, <2>0, <2>3
    <3>2. \A v \in Threads : pc'[v] # "idle" => pc[v] # "idle"
      BY <1>F
    <3> QED BY <1>F, <2>0, <3>1, <3>2 DEF Alone
  <2> QED BY <2>1, <2>2, <2>3
<1>2. \A f \in Files \ contended : disk[f] = "full" => disk'[f] = "full"
  BY <1>0, <1>A, <1>F, ProceedAlone
<1>3. SyncedMeansFull'
  <2> SUFFICES ASSUME NEW f \in Files \ contended, rows'[f].state = "Synced"
               PROVE  disk'[f] = "full"
    BY <1>F DEF SyncedMeansFull
  <2>1. disk[f] = "full"
    BY <1>0, <1>A, ProceedSynced DEF AloneInv, SyncedMeansFull, Alone
  <2> QED BY <1>2, <2>1
<1> QED BY <1>1, <1>2, <1>3, <1>F DEF AloneInv

\* ... and by the steps of its environment.
LEMMA AloneEnvironment ==
    ASSUME AloneInv, TypeOK', Environment
    PROVE  AloneInv' /\ disk' = disk
<1> USE DEF threadVars, bounds, Goto, Return
<1>0. TypeOK
  BY DEF AloneInv
<1>1. disk' = disk /\ contended \subseteq contended'
  BY DEF Environment, OpenCached, OpenMissing, MetadataUpsert, MetadataDelete,
     SetCloudOnly, SetPinned, Crash
<1>2. SyncedMeansFull'
  <2>1. ASSUME NEW f \in Files, rows'[f].state = "Synced" PROVE rows[f].state = "Synced"
    <3>1. {"CloudOnly", "Pending"} \subseteq FileState \ {"Synced"} /\ 1 \in Nat \ {0}
      BY DEF FileState
    <3>2. ASSUME NEW g \in Files
          PROVE  /\ upsert_cloud_item(rows, g, 1)[f].state = "Synced" => rows[f].state = "Synced"
                 /\ delete_if_present(rows, g)[f].state = "Synced" => rows[f].state = "Synced"
                 /\ update_file_state(rows, g, "CloudOnly")[f].state = "Synced"
                      => rows[f].state = "Synced"
                 /\ update_file_state(rows, g, "Pending")[f].state = "Synced"
                      => rows[f].state = "Synced"
      <4>1. rows \in Table(Files)
        BY <1>0 DEF TypeOK
      <4>2. /\ "CloudOnly" \in FileState \ {"Synced"}
            /\ "Pending" \in FileState \ {"Synced"}
        BY <3>1
      <4> QED BY <3>1, <4>1, <4>2, SyncedOnly
    <3>3. CASE rows' = rows
      BY <2>1, <3>3
    <3>4. CASE \E g \in Files : MetadataUpsert(g) \/ MetadataDelete(g)
                                 \/ SetCloudOnly(g) \/ SetPinned(g)
      BY <2>1, <3>2, <3>4 DEF MetadataUpsert, MetadataDelete, SetCloudOnly, SetPinned
    <3> QED BY <3>3, <3>4 DEF Environment, OpenCached, OpenMissing, Crash
  <2> QED BY <1>1, <2>1 DEF AloneInv, SyncedMeansFull
<1> DEFINE Rest == \A t \in Threads : file[t] \notin contended => Alone(t)
<1>a. Rest
  BY DEF AloneInv
<1>3. CASE Crash
  <2>1. \A t \in Threads : pc'[t] = "idle"
    BY <1>3 DEF Crash
  <2> QED BY <1>0, <1>1, <1>2, <2>1 DEF AloneInv, Alone
<1>4. ASSUME NEW t \in Threads, NEW f \in Files, OpenCached(t, f) \/ OpenMissing(t, f)
      PROVE  Rest'
  <2>1. /\ pc[t] = "idle" /\ pc'[t] \in {"idle", "lock"} /\ file'[t] = f
        /\ \A u \in Threads \ {t} : pc'[u] = pc[u] /\ file'[u] = file[u]
        /\ intact' = intact /\ result' = result /\ crashes' = crashes
    BY <1>0, <1>4 DEF OpenCached, OpenMissing, TypeOK
  <2>2. ASSUME NEW u \in Threads \ {t}, pc[u] # "idle", file[u] = f, pc'[t] = "lock"
        PROVE  f \in contended'
    <3>1. contended' = contended \cup
            {file[w] : w \in {v \in Threads \ {t} : pc[v] # "idle" /\ file[v] = f}}
      BY <1>0, <1>4, <2>2 DEF OpenCached, OpenMissing, TypeOK
    <3> QED BY <2>2, <3>1
  <2>3. ASSUME NEW u \in Threads, file'[u] \notin contended' PROVE Alone(u)'
    <3>1. CASE u = t
      BY <2>1, <2>2, <2>3, <3>1 DEF Alone
    <3>2. CASE u # t
      <4>1. Alone(u) /\ file'[u] = file[u] /\ pc'[u] = pc[u]
        BY <1>1, <1>a, <2>1, <2>3, <3>2
      <4>2. ASSUME pc'[u] # "idle", NEW v \in Threads, pc'[v] # "idle", file'[v] = file'[u]
            PROVE  v = u
        <5>1. CASE v = t
          BY <2>1, <2>2, <2>3, <3>2, <4>1, <4>2, <5>1
        <5>2. CASE v # t
          BY <2>1, <4>1, <4>2, <5>2 DEF Alone
        <5> QED BY <5>1, <5>2
      <4> QED BY <1>1, <2>1, <4>1, <4>2 DEF Alone
    <3> QED BY <3>1, <3>2
  <2> QED BY <2>3
<1>5. CASE UNCHANGED <<threadVars, bounds, contended>>
  BY <1>0, <1>1, <1>2, <1>5 DEF AloneInv, Alone
<1>6. CASE \E t \in Threads, f \in Files : OpenCached(t, f) \/ OpenMissing(t, f)
  BY <1>1, <1>2, <1>4, <1>6 DEF AloneInv
<1> QED BY <1>3, <1>5, <1>6, <1>1 DEF Environment, MetadataUpsert, MetadataDelete,
     SetCloudOnly, SetPinned

\* AloneInv is inductive.
LEMMA AloneStep ==
    ASSUME AloneInv, [Next]_vars
    PROVE  /\ AloneInv'
           /\ \A f \in Files \ contended' : disk[f] = "full" => disk'[f] = "full"
<1>0. TypeOK'
  BY NextType DEF AloneInv
<1>1. CASE Quiet
  BY <1>0, <1>1 DEF Quiet, threadVars, bounds, AloneInv, Alone, SyncedMeansFull
<1> QED BY <1>0, <1>1, AloneProceed, AloneEnvironment, NextCases

\* The initial states satisfy it.
LEMMA AloneInit == Init => AloneInv
BY InitType DEF Init, AloneInv, Alone, SyncedMeansFull, NoRow

\* As long as calls for a file do not overlap, Synced means that the whole
\* content is cached, and a complete copy is never truncated, across failures
\* and crashes.
THEOREM AloneSafety == Spec => []SyncedMeansFull /\ FullStaysFull
<1>1. AloneInv /\ [Next]_vars => AloneInv'
  BY AloneStep
<1>2. AloneInv /\ [Next]_vars =>
        [\A f \in Files \ contended' : disk[f] = "full" => disk'[f] = "full"]_vars
  BY AloneStep
<1>3. AloneInv => SyncedMeansFull
  BY DEF AloneInv
<1> QED BY AloneInit, <1>1, <1>2, <1>3, PTL DEF Spec, FullStaysFull

-----------------------------------------------------------------------------
\* A step of a caller makes only its own file's row say Syncing, and then it is
\* about to download it; when it stops downloading, the row says something else, or
\* the file is cloud-native.
LEMMA ProceedSyncing ==
    ASSUME SyncingInv, NEW t \in Threads, Proceed(t), NEW f \in Files \ Native,
           dbFaults' = dbFaults, rows'[f].state = "Syncing"
    PROVE  (rows[f].state = "Syncing" /\ ~ Downloading(t, f)) \/ Downloading(t, f)'
<1>0. TypeOK /\ file[t] \in Files /\ rows \in Table(Files) /\ file' = file
  BY ProceedFrame DEF SyncingInv, TypeOK
<1>1. "Syncing" \in {"Synced", "Syncing"} /\ 1 \in Nat \ {0}
      /\ "Synced" \in FileState \ {"Syncing"} /\ "Error" \in FileState \ {"Syncing"}
  BY DEF FileState
<1>2. /\ update_file_state(rows, file[t], "Synced")[f].state = "Syncing"
           => rows[f].state = "Syncing" /\ f # file[t]
      /\ update_file_state(rows, file[t], "Error")[f].state = "Syncing"
           => rows[f].state = "Syncing" /\ f # file[t]
  <2>1. f # file[t] =>
          /\ update_file_state(rows, file[t], "Synced")[f] = rows[f]
          /\ update_file_state(rows, file[t], "Error")[f] = rows[f]
    BY <1>0 DEF update_file_state, update_file, Table
  <2>2. /\ update_file_state(rows, file[t], "Synced")[file[t]].state # "Syncing"
        /\ update_file_state(rows, file[t], "Error")[file[t]].state # "Syncing"
    BY <1>0 DEF update_file_state, update_file, HasRow, NoRow, Table, Row
  <2> QED BY <2>1, <2>2
<1> USE DEF WriteRow, bounds, Goto, Return
<1>3. CASE MarkSyncing(t)
  <2>1. f # file[t] => update_file_state(rows, file[t], "Syncing")[f] = rows[f]
    BY <1>0 DEF update_file_state, update_file, Table
  <2>2. rows' = update_file_state(rows, file[t], "Syncing") /\ pc'[t] = "request"
    BY <1>0, <1>3 DEF MarkSyncing, TypeOK
  <2> QED BY <1>0, <2>1, <2>2 DEF Downloading
<1>4. CASE MarkSynced(t)
  <2>1. rows' = update_file_state(rows, file[t], "Synced")
    BY <1>0, <1>4 DEF MarkSynced, TypeOK
  <2> QED BY <1>2, <2>1 DEF Downloading
<1>5. CASE MarkError(t)
  <2>1. rows' = update_file_state(rows, file[t], "Error")
    BY <1>0, <1>5 DEF MarkError, TypeOK
  <2> QED BY <1>2, <2>1 DEF Downloading
<1>6. CASE StampSynced(t)
  <2>1. update_synced_at(rows, file[t])[f].state = "Syncing" => rows[f].state = "Syncing"
    BY <1>0, <1>1, StateOnly
  <2> QED BY <1>6, <2>1 DEF StampSynced, Downloading
<1>7. CASE RelockNative(t)
  BY <1>7 DEF RelockNative, SyncingInv, Downloading
<1>8. CASE GetLock(t) \/ CheckDone(t) \/ CheckProceed(t)
  BY <1>8 DEF GetLock, CheckDone, CheckProceed, Downloading
<1>9. CASE RequestNative(t) \/ RequestFails(t) \/ CreateDest(t) \/ StreamDone(t) \/ StreamFails(t)
           \/ RelockOk(t) \/ RelockError(t)
  <2>1. rows' = rows /\ pc'[t] \in {"write", "relock", "synced", "error"}
    BY <1>0, <1>9 DEF RequestNative, RequestFails, CreateDest, StreamDone, StreamFails,
       RelockOk, RelockError, TypeOK
  <2> QED BY <1>0, <2>1 DEF Downloading
<1> QED BY <1>3, <1>4, <1>5, <1>6, <1>7, <1>8, <1>9 DEF Proceed

\* SyncingInv is kept by the steps of a caller.
LEMMA SyncingProceed ==
    ASSUME SyncingInv, TypeOK', NEW t \in Threads, Proceed(t)
    PROVE  SyncingInv'
<1>0. TypeOK
  BY DEF SyncingInv
<1>F. /\ file' = file /\ crashes' = crashes /\ file[t] \in Files
      /\ \A u \in Threads \ {t} : pc'[u] = pc[u] /\ result'[u] = result[u]
  BY <1>0, ProceedFrame
<1>1. ASSUME crashes' = 0, dbFaults' = 0, NEW f \in Files \ Native, rows'[f].state = "Syncing"
      PROVE  \E u \in Threads : Downloading(u, f)'
  <2>1. dbFaults = 0 /\ dbFaults' = dbFaults
    <3>1. dbFaults' = dbFaults \/ dbFaults' = dbFaults + 1
      BY DEF Proceed, GetLock, CheckDone, CheckProceed, MarkSyncing, RequestNative, RequestFails,
         CreateDest, StreamDone, StreamFails, RelockOk, RelockNative, RelockError,
         MarkSynced, StampSynced, MarkError, bounds, WriteRow
    <3> QED BY <1>0, <1>1, <3>1 DEF TypeOK
  <2>2. CASE Downloading(t, f)'
    BY <2>2
  <2>3. CASE rows[f].state = "Syncing" /\ ~ Downloading(t, f)
    <3>1. PICK u \in Threads : Downloading(u, f)
      BY <1>1, <1>F, <2>1, <2>3 DEF SyncingInv, SyncingMeansDownloading
    <3> QED BY <1>F, <2>3, <3>1 DEF Downloading
  <2> QED BY <1>1, <2>1, <2>2, <2>3, ProceedSyncing
<1>2. ASSUME NEW u \in Threads, pc'[u] = "relock", result'[u] = "native"
      PROVE  file'[u] \in Native
  <2>1. CASE u # t
    BY <1>2, <1>F, <2>1 DEF SyncingInv
  <2>2. CASE u = t
    BY <1>0, <1>2, <1>F, <2>2 DEF TypeOK, Goto, Return, Proceed, GetLock, CheckDone, CheckProceed,
       MarkSyncing, RequestNative, RequestFails, CreateDest, StreamDone, StreamFails, RelockOk,
       RelockNative, RelockError, MarkSynced, StampSynced, MarkError
  <2> QED BY <2>1, <2>2
<1> QED BY <1>1, <1>2 DEF SyncingInv, SyncingMeansDownloading

\* ... and by the steps of its environment.
LEMMA SyncingEnvironment == ASSUME SyncingInv, TypeOK', Environment PROVE SyncingInv'
<1> USE DEF threadVars, bounds, Goto, Return
<1>0. TypeOK
  BY DEF SyncingInv
<1>1. CASE Crash
  BY <1>0, <1>1 DEF Crash, TypeOK, SyncingInv, SyncingMeansDownloading
<1>2. ASSUME NEW t \in Threads, NEW f \in Files, OpenCached(t, f) \/ OpenMissing(t, f)
      PROVE  SyncingInv'
  <2>1. /\ pc[t] = "idle" /\ pc'[t] \in {"idle", "lock"} /\ rows' = rows
        /\ \A u \in Threads \ {t} : pc'[u] = pc[u] /\ file'[u] = file[u]
        /\ result' = result /\ crashes' = crashes /\ dbFaults' = dbFaults
    BY <1>0, <1>2 DEF OpenCached, OpenMissing, TypeOK
  <2>2. \A u \in Threads, g \in Files : Downloading(u, g) => Downloading(u, g)'
    BY <2>1 DEF Downloading
  <2> QED BY <2>1, <2>2 DEF SyncingInv, SyncingMeansDownloading
<1>3. ASSUME NEW g \in Files,
             MetadataUpsert(g) \/ MetadataDelete(g) \/ SetCloudOnly(g) \/ SetPinned(g)
      PROVE  SyncingInv'
  <2>1. ASSUME NEW f \in Files, rows'[f].state = "Syncing" PROVE rows[f].state = "Syncing"
    <3>1. "Syncing" \in {"Synced", "Syncing"} /\ 1 \in Nat \ {0} /\ rows \in Table(Files)
          /\ "CloudOnly" \in FileState \ {"Syncing"} /\ "Pending" \in FileState \ {"Syncing"}
      BY <1>0 DEF FileState, TypeOK
    <3>2. /\ upsert_cloud_item(rows, g, 1)[f].state = "Syncing" => rows[f].state = "Syncing"
          /\ delete_if_present(rows, g)[f].state = "Syncing" => rows[f].state = "Syncing"
          /\ update_file_state(rows, g, "CloudOnly")[f].state = "Syncing"
               => rows[f].state = "Syncing"
          /\ update_file_state(rows, g, "Pending")[f].state = "Syncing"
               => rows[f].state = "Syncing"
      BY <3>1, StateOnly
    <3> QED BY <1>3, <2>1, <3>2 DEF MetadataUpsert, MetadataDelete, SetCloudOnly, SetPinned
  <2>2. UNCHANGED <<threadVars, bounds>>
    BY <1>3 DEF MetadataUpsert, MetadataDelete, SetCloudOnly, SetPinned
  <2> QED BY <2>1, <2>2 DEF SyncingInv, SyncingMeansDownloading, Downloading
<1> QED BY <1>1, <1>2, <1>3 DEF Environment

\* However the updates of several callers interleave, a row says Syncing only while
\* some caller downloads the file: for files that can be downloaded, as long as no
\* crash and no failed update has intervened.
THEOREM SyncingSafety == Spec => []SyncingMeansDownloading
<1>1. Init => SyncingInv
  BY InitType DEF Init, SyncingInv, SyncingMeansDownloading, NoRow
<1>2. SyncingInv /\ [Next]_vars => SyncingInv'
  <2>1. SyncingInv /\ Quiet /\ TypeOK' => SyncingInv'
    BY DEF Quiet, threadVars, bounds, SyncingInv, SyncingMeansDownloading, Downloading
  <2> QED BY <2>1, NextType, SyncingProceed, SyncingEnvironment, NextCases DEF SyncingInv
<1>3. SyncingInv => SyncingMeansDownloading
  BY DEF SyncingInv
<1> QED BY <1>1, <1>2, <1>3, PTL DEF Spec
=============================================================================
