---------------------------- MODULE MetadataSync ----------------------------
(***************************************************************************)
(* The background metadata sync of cloudsync-vfs (metadata_sync.rs): one   *)
(* thread copies the provider's metadata into the `files' table, first     *)
(* with a full listing of the root folder, then by reading the provider's  *)
(* change feed from a cursor that is kept in the database.                 *)
(*                                                                         *)
(* The cloud (external) is an append-only log of changes; a cursor is the  *)
(* number of changes of the log that lie behind it.  The metadata of a     *)
(* file is named by the position of the change that produced it, so a      *)
(* row's `ver' says which change the row reflects.                         *)
(*                                                                         *)
(* Every provider call and every with_conn closure of the thread is one    *)
(* step and may fail; the process may crash between any two steps; the     *)
(* database survives, the thread's locals do not.                          *)
(***************************************************************************)
EXTENDS FilesTable, Integers, Sequences

CONSTANTS Files,        \* provider file ids
          RootFiles,    \* those whose parent is the root folder
          Malformed,    \* those whose metadata file_to_cloud_item rejects
          PageSize,     \* changes per page of the provider's feed
          MaxChanges,   \* bound: length of the change log
          MaxFaults,    \* bound: failing provider or database calls
          MaxRestarts   \* bound: how often the thread is started again

ASSUME ConstantsAssumption ==
    /\ RootFiles \subseteq Files
    /\ Malformed \subseteq Files
    /\ PageSize \in Nat \ {0}
    /\ MaxChanges \in Nat
    /\ MaxFaults \in Nat
    /\ MaxRestarts \in Nat

VARIABLES
    cloud,      \* per file, the change that its present metadata is from; 0: absent
    log,        \* the provider's change log
    rows,       \* the files table
    cursor,     \* the row of sync_cursors
    pc,         \* where the sync thread is
    stop,       \* SyncHandle::stop_flag
    listing,    \* items of the listing that initial_sync has not stored yet
    token,      \* change_list.cursor of initial_sync's get_changes(None)
    pos,        \* next change of the page that incremental_sync applies
    pageEnd,    \* change_list.cursor of the page
    hasMore,    \* change_list.has_more of the page
    faults, starts,
    \* history variables, read by properties only:
    listedAt,   \* length of the log when the listing in progress was taken
    listed,     \* ... of the listing the stored cursor came with
    base        \* the cursor that the last complete initial_sync stored

cloudVars == <<cloud, log>>
locals == <<listing, token, pos, pageEnd, hasMore>>
history == <<listedAt, listed, base>>
vars == <<cloud, log, rows, cursor, pc, stop, locals, faults, starts, history>>

NoCursor == -1

Change == [file : Files, kind : {"item", "gone", "bare"}]

Busy == {"list", "store", "token", "saveToken",
         "readCursor", "fetch", "apply", "saveCursor"}

Running == Busy \cup {"sleep"}

TypeOK ==
    /\ cloud \in [Files -> Nat]
    /\ log \in Seq(Change)
    /\ rows \in Table(Files)
    /\ cursor \in Nat \cup {NoCursor}
    /\ pc \in Running \cup {"down"}
    /\ stop \in BOOLEAN
    /\ listing \in SUBSET (Files \X (Nat \ {0}))
    /\ token \in Nat
    /\ pos \in Nat
    /\ pageEnd \in Nat
    /\ hasMore \in BOOLEAN
    /\ faults \in Nat
    /\ starts \in Nat
    /\ listedAt \in Nat
    /\ listed \in Nat
    /\ base \in Nat

Init ==
    /\ cloud = [f \in Files |-> 0]
    /\ log = << >>
    /\ rows = [f \in Files |-> NoRow]
    /\ cursor = NoCursor
    /\ pc = "down"
    /\ stop = FALSE
    /\ listing = {}
    /\ token = 0
    /\ pos = 0
    /\ pageEnd = 0
    /\ hasMore = FALSE
    /\ faults = 0
    /\ starts = 0
    /\ listedAt = 0
    /\ listed = 0
    /\ base = 0

-----------------------------------------------------------------------------
(* The cloud: other clients of the drive change files at any time.         *)

AppendChange(f, k) ==
    /\ Len(log) < MaxChanges
    /\ log' = Append(log, [file |-> f, kind |-> k])

\* A file is created, or its metadata changes.
CloudPut(f) ==
    /\ AppendChange(f, "item")
    /\ cloud' = [cloud EXCEPT ![f] = Len(log) + 1]
    /\ UNCHANGED <<rows, cursor, pc, stop, locals, faults, starts, history>>

\* A file is removed or trashed; get_changes reports both as deleted.
CloudDelete(f) ==
    /\ cloud[f] # 0
    /\ AppendChange(f, "gone")
    /\ cloud' = [cloud EXCEPT ![f] = 0]
    /\ UNCHANGED <<rows, cursor, pc, stop, locals, faults, starts, history>>

\* A change that carries a file id but neither `removed' nor a file.
CloudTouch(f) ==
    /\ AppendChange(f, "bare")
    /\ UNCHANGED <<cloud, rows, cursor, pc, stop, locals, faults, starts, history>>

(***************************************************************************)
(* The provider's answers (GoogleDriveProvider).                           *)
(***************************************************************************)

\* list_folder(root): files in the root folder; malformed ones are skipped.
ListFolder ==
    { <<f, cloud[f]>> : f \in {g \in RootFiles \ Malformed : cloud[g] # 0} }

\* get_changes(None): no changes, and a token for "now".
StartPageToken == Len(log)

\* get_changes(Some(c)): where the page ends.  Its changes are log[c+1..end].
PageEnd(c) == IF c + PageSize < Len(log) THEN c + PageSize ELSE Len(log)

-----------------------------------------------------------------------------
(* The sync thread.                                                        *)

ForgetLocals ==
    /\ listing' = {}
    /\ token' = 0
    /\ pos' = 0
    /\ pageEnd' = 0
    /\ hasMore' = FALSE
    /\ listedAt' = 0

\* start_background_sync: the thread begins with initial_sync, always.
Start ==
    /\ pc = "down"
    /\ starts <= MaxRestarts
    /\ starts' = starts + 1
    /\ pc' = "list"
    /\ stop' = FALSE
    /\ UNCHANGED <<cloudVars, rows, cursor, locals, faults, history>>

\* initial_sync: list_folder(root).
List ==
    /\ pc = "list"
    /\ listing' = ListFolder
    /\ listedAt' = Len(log)
    /\ pc' = IF ListFolder = {} THEN "token" ELSE "store"
    /\ UNCHANGED <<cloudVars, rows, cursor, stop, token, pos, pageEnd, hasMore,
                   faults, starts, listed, base>>

\* initial_sync: upsert one item of the listing.
StoreItem ==
    /\ pc = "store"
    /\ \E it \in listing :
         /\ rows' = upsert_cloud_item(rows, it[1], it[2])
         /\ listing' = listing \ {it}
    /\ pc' = IF listing' = {} THEN "token" ELSE "store"
    /\ UNCHANGED <<cloudVars, cursor, stop, token, pos, pageEnd, hasMore,
                   faults, starts, history>>

\* initial_sync: get_changes(None).
GetToken ==
    /\ pc = "token"
    /\ token' = StartPageToken
    /\ pc' = "saveToken"
    /\ UNCHANGED <<cloudVars, rows, cursor, stop, listing, pos, pageEnd, hasMore,
                   faults, starts, history>>

\* initial_sync: upsert_cursor with the start token, whatever was stored before.
SaveToken ==
    /\ pc = "saveToken"
    /\ cursor' = token
    /\ base' = token
    /\ listed' = listedAt
    /\ pc' = "sleep"
    /\ ForgetLocals
    /\ UNCHANGED <<cloudVars, rows, stop, faults, starts>>

\* Mutant of Wake: the flag is not looked at after the sleep.
WakeIgnoringStop ==
    /\ pc = "sleep"
    /\ pc' = "readCursor"
    /\ UNCHANGED <<cloudVars, rows, cursor, stop, locals, faults, starts, history>>

\* The interval is over and the stop flag was not seen.
Wake ==
    /\ pc = "sleep"
    /\ ~stop
    /\ pc' = "readCursor"
    /\ UNCHANGED <<cloudVars, rows, cursor, stop, locals, faults, starts, history>>

\* The loop, or the sleep in it, sees the stop flag and the thread returns.
Exit ==
    /\ pc = "sleep"
    /\ stop
    /\ pc' = "down"
    /\ UNCHANGED <<cloudVars, rows, cursor, stop, locals, faults, starts, history>>

\* incremental_sync: read the stored cursor; without one, do an initial_sync.
ReadCursor ==
    /\ pc = "readCursor"
    /\ pc' = IF cursor = NoCursor THEN "list" ELSE "fetch"
    /\ UNCHANGED <<cloudVars, rows, cursor, stop, locals, faults, starts, history>>

\* incremental_sync: get_changes(Some(cursor)).  The local cursor equals the
\* stored one here: each page's cursor is stored before the next is fetched.
Fetch ==
    /\ pc = "fetch"
    /\ pos' = cursor + 1
    /\ pageEnd' = PageEnd(cursor)
    /\ hasMore' = (PageEnd(cursor) < Len(log))
    /\ pc' = IF PageEnd(cursor) = cursor THEN "saveCursor" ELSE "apply"
    /\ UNCHANGED <<cloudVars, rows, cursor, stop, listing, token, faults, starts,
                   history>>

\* Mutant of apply_change: deletions are skipped, as SyncEngine does.
apply_change_no_delete(c, v) ==
    IF c.kind = "item" /\ c.file \notin Malformed
    THEN upsert_cloud_item(rows, c.file, v)
    ELSE rows

\* What apply_change makes of the table; get_changes has dropped the items
\* that file_to_cloud_item rejects, but not their deletions.
apply_change(c, v) ==
    IF c.kind = "gone"
    THEN delete_if_present(rows, c.file)
    ELSE IF c.kind = "item" /\ c.file \notin Malformed
         THEN upsert_cloud_item(rows, c.file, v)
         ELSE rows

\* incremental_sync: apply the next change of the page.
ApplyChange ==
    /\ pc = "apply"
    /\ rows' = apply_change(log[pos], pos)
    /\ pos' = pos + 1
    /\ pc' = IF pos = pageEnd THEN "saveCursor" ELSE "apply"
    /\ UNCHANGED <<cloudVars, cursor, stop, listing, token, pageEnd, hasMore,
                   faults, starts, history>>

\* incremental_sync: upsert_cursor with the page's cursor; go on if has_more.
SaveCursor ==
    /\ pc = "saveCursor"
    /\ cursor' = pageEnd
    /\ \/ /\ hasMore
          /\ pc' = "fetch"
          /\ UNCHANGED <<locals, listedAt>>
       \/ /\ ~hasMore
          /\ pc' = "sleep"
          /\ ForgetLocals
    /\ UNCHANGED <<cloudVars, rows, stop, faults, starts, listed, base>>

\* Mutant of Fail: an item or a change that cannot be stored is logged and
\* skipped, and the sync goes on with the next one.
FailSkips ==
    /\ faults < MaxFaults
    /\ faults' = faults + 1
    /\ \/ /\ pc = "store"
          /\ \E it \in listing : listing' = listing \ {it}
          /\ pc' = IF listing' = {} THEN "token" ELSE "store"
          /\ pos' = pos
       \/ /\ pc = "apply"
          /\ pos' = pos + 1
          /\ pc' = IF pos = pageEnd THEN "saveCursor" ELSE "apply"
          /\ listing' = listing
    /\ UNCHANGED <<cloudVars, rows, cursor, stop, token, pageEnd, hasMore, starts,
                   history>>

\* The provider call or the database closure of this step returns an error:
\* the sync is abandoned with `?', logged, and the thread sleeps.
Fail ==
    /\ pc \in Busy
    /\ faults < MaxFaults
    /\ faults' = faults + 1
    /\ pc' = "sleep"
    /\ ForgetLocals
    /\ UNCHANGED <<cloudVars, rows, cursor, stop, starts, listed, base>>

\* SyncHandle::stop, or the first line of its Drop.
Stop ==
    /\ pc # "down"
    /\ stop' = TRUE
    /\ UNCHANGED <<cloudVars, rows, cursor, pc, locals, faults, starts, history>>

\* The process is killed.
Crash ==
    /\ pc # "down"
    /\ pc' = "down"
    /\ stop' = FALSE
    /\ ForgetLocals
    /\ UNCHANGED <<cloudVars, rows, cursor, faults, starts, listed, base>>

ThreadStep ==
    \/ List \/ StoreItem \/ GetToken \/ SaveToken
    \/ Wake \/ Exit \/ ReadCursor \/ Fetch \/ ApplyChange \/ SaveCursor
    \/ Fail

Environment ==
    \/ \E f \in Files : CloudPut(f) \/ CloudDelete(f) \/ CloudTouch(f)
    \/ Start \/ Stop \/ Crash

Next == ThreadStep \/ Environment

Spec == Init /\ [][Next]_vars

\* The operating system keeps running the thread, and every provider call it
\* makes comes back with an answer or an error.
FairSpec == Spec /\ WF_vars(ThreadStep)

-----------------------------------------------------------------------------
(* Properties.                                                             *)

\* A change that must leave a trace in the table.
Relevant(i) ==
    \/ log[i].kind = "gone"
    \/ log[i].kind = "item" /\ log[i].file \notin Malformed

\* The table is at least as recent as change i for the file of change i: the
\* row is from that change or a later one, or is missing because that change
\* or a later one deleted the file.
Reflected(i) ==
    IF HasRow(rows, log[i].file)
    THEN rows[log[i].file].ver >= i
    ELSE \E j \in i..Len(log) : log[j].file = log[i].file /\ log[j].kind = "gone"

\* incremental_sync never moves the stored cursor past a change that is not in
\* the table: whatever fails, crashes or is replayed between applying a page
\* and storing its cursor, every change between the start token of the last
\* initial_sync and the stored cursor is reflected.
FeedApplied ==
    cursor # NoCursor =>
        \A i \in base + 1 .. cursor : Relevant(i) => Reflected(i)

\* Change i of the log lg, which a listing taken after n changes must show: an
\* item of the root folder that was not removed again before the listing was taken.
Listable(lg, i, n) ==
    /\ lg[i].kind = "item"
    /\ lg[i].file \in RootFiles \ Malformed
    /\ \A j \in i + 1 .. n : lg[j].file = lg[i].file => lg[j].kind # "gone"

\* Once initial_sync has stored a cursor, everything its listing showed is in
\* the table, and neither later runs that fail half-way nor replays of older
\* changes take it out again or put an older version in its place.
ListingStored ==
    cursor # NoCursor =>
        \A i \in 1 .. listed : Listable(log, i, listed) => Reflected(i)

\* A cursor is only replaced by one behind which nothing is missing: what lies between
\* the two is reflected in the table when the new one is stored.  This is what
\* sync_cursors.rs says the cursor is kept for, "so incremental sync survives daemon
\* restarts".  A restarted thread, however, begins with initial_sync, which stores a
\* new start token over the stored cursor.
CursorSkipsNothing ==
    [][(cursor # NoCursor /\ cursor' # cursor) =>
          \A i \in cursor + 1 .. cursor' : Relevant(i) => Reflected(i)']_vars

\* What the table owes: a file that has changed since the start token of the last
\* initial_sync, and a root file as its listing showed it.  The rest is a file last
\* changed between the listing and the token, which neither shows, a nested file that
\* has not changed since, and a file that was gone before the listing, whose row an
\* earlier thread or attempt may have left.
ChangedSinceBase(f) ==
    \E i \in base + 1 .. Len(log) : log[i].file = f /\ log[i].kind # "bare"

Owed(f) == ChangedSinceBase(f) \/ (f \in RootFiles /\ cloud[f] \in 1 .. listed)

Converged == \A f \in Files \ Malformed : Owed(f) => rows[f].ver = cloud[f]

\* If the thread keeps running, the table ends up equal to the cloud for every file
\* that it owes, whatever changes meanwhile and whichever calls have failed.
Converges ==
    <>[](pc \in Running /\ ~stop /\ cursor # NoCursor) => <>[]Converged

\* SyncHandle's Drop joins the thread: a thread told to stop ends, also when it
\* is in the middle of a sync with further pages to come.
StopEnds == stop ~> (pc = "down")

-----------------------------------------------------------------------------
(***************************************************************************)
(* The inductive invariant behind FeedApplied and ListingStored (proved in *)
(* MetadataSync_proofs).                                                   *)
(***************************************************************************)

\* The cloud's present state is what its log says.
CloudIsLog ==
    /\ \A f \in Files : cloud[f] <= Len(log)
    /\ \A i \in 1 .. Len(log) :
         /\ (log[i].kind # "bare" /\ cloud[log[i].file] # 0) => i <= cloud[log[i].file]
         /\ Listable(log, i, Len(log)) => i <= cloud[log[i].file]

\* The stored cursor lies in the log, behind the listing it came with.
CursorInLog ==
    cursor # NoCursor => listed <= base /\ base <= cursor /\ cursor <= Len(log)

\* The page being applied starts after the stored cursor and ends in the log.
PageInLog ==
    /\ pc \in {"fetch", "apply", "saveCursor"} => cursor # NoCursor
    /\ pc \in {"apply", "saveCursor"} =>
         /\ cursor < pos
         /\ pageEnd <= Len(log)
         /\ pc = "apply" => pos <= pageEnd
         /\ pc = "saveCursor" => pos = pageEnd + 1

\* How far the feed is applied: past the stored cursor while a page is.
Frontier == IF pc \in {"apply", "saveCursor"} THEN pos - 1 ELSE cursor

FrontierApplied ==
    cursor # NoCursor =>
        \A i \in base + 1 .. Frontier : Relevant(i) => Reflected(i)

\* The listing being stored: its items are the latest versions at the time it
\* was taken, and what it showed is stored already or still to be stored.
ListingInLog ==
    pc \in {"store", "token", "saveToken"} =>
        /\ listedAt <= Len(log)
        /\ cursor # NoCursor => cursor <= listedAt
        /\ pc # "store" => listing = {}
        /\ pc = "saveToken" => listedAt <= token /\ token <= Len(log)

ListingIsLatest ==
    pc = "store" =>
        \A it \in listing : \A i \in 1 .. listedAt :
            (log[i].file = it[1] /\ log[i].kind # "bare") => i <= it[2]

ListingPending ==
    pc \in {"store", "token", "saveToken"} =>
        \A i \in 1 .. listedAt :
            Listable(log, i, listedAt) =>
                Reflected(i) \/ \E it \in listing : it[1] = log[i].file

IInv ==
    /\ TypeOK
    /\ CloudIsLog
    /\ CursorInLog
    /\ PageInLog
    /\ FrontierApplied
    /\ ListingStored
    /\ ListingInLog
    /\ ListingIsLatest
    /\ ListingPending
=============================================================================
