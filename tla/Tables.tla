------------------------------- MODULE Tables -------------------------------
(***************************************************************************)
(* The tables accounts, files and sync_cursors of cloudsync-db as one      *)
(* record, and the statements on them.  A row of files is known by its     *)
(* local id; its metadata is abstracted to its path.  Every operator is    *)
(* one SQL statement, which SQLite executes atomically; the foreign keys   *)
(* are enforced because every connection switches them on.                 *)
(***************************************************************************)
EXTENDS Integers, FiniteSets, PathResolver

EmptyTables == [accounts |-> <<>>, files |-> <<>>, cursors |-> <<>>, next |-> 1]

\* Mutant of ForeignKeys: apply_pragmas does not switch them on.
ForeignKeysOff == FALSE

\* apply_pragmas: PRAGMA foreign_keys = ON, on every connection.
ForeignKeys == TRUE

\* A table, a function on the keys of its rows, without or with a row.
Without(table, keys) == [k \in DOMAIN table \ keys |-> table[k]]
With(table, key, row) == [k \in DOMAIN table \cup {key} |-> IF k = key THEN row ELSE table[k]]

-----------------------------------------------------------------------------
(* accounts                                                                *)

\* The column `provider' has other names than the slugs of the paths.
DbName(provider) ==
    CASE provider = "GoogleDrive" -> "googledrive"
      [] provider = "Dropbox" -> "dropbox"
      [] provider = "OneDrive" -> "onedrive"

\* Account::from_row
FromRow(name) == CHOOSE p \in ProviderId : DbName(p) = name

\* Account::new, and its row.
NewAccount(provider, email, now) ==
    [provider |-> DbName(provider), email |-> email, is_active |-> TRUE, created_at |-> now]

\* UNIQUE(provider, email): create_account is a Conflict.
AccountConflicts(db, a) ==
    \E i \in DOMAIN db.accounts : /\ db.accounts[i].provider = a.provider
                                  /\ db.accounts[i].email = a.email

create_account(db, id, a) == [db EXCEPT !.accounts = With(@, id, a)]

\* get_account_by_id returns Some.
HasAccount(db, id) == id \in DOMAIN db.accounts

\* list_accounts(active_only = TRUE): the newest first; the order of several of the
\* same time is not specified.
list_accounts(db) ==
    LET active == {i \in DOMAIN db.accounts : db.accounts[i].is_active}
    IN  {ids \in [1..Cardinality(active) -> active] :
            /\ \A i \in active : \E k \in DOMAIN ids : ids[k] = i
            /\ \A j, k \in DOMAIN ids :
                j < k => db.accounts[ids[j]].created_at >= db.accounts[ids[k]].created_at}

\* update_account, of an account that was read and has become (in)active.
update_account(db, id, active) ==
    IF HasAccount(db, id) THEN [db EXCEPT !.accounts[id].is_active = active] ELSE db

\* delete_account: ON DELETE CASCADE takes the files and the cursor along.
delete_account(db, id) ==
    LET gone == {r \in DOMAIN db.files : db.files[r].account = id}
    IN  [db EXCEPT !.accounts = Without(@, {id}),
                   !.files = IF ForeignKeys THEN Without(@, gone) ELSE @,
                   !.cursors = IF ForeignKeys THEN Without(@, {id}) ELSE @]

-----------------------------------------------------------------------------
(* files                                                                   *)

FileState == {"Synced", "CloudOnly", "Syncing", "Pending", "Error", "Excluded",
              "OfflineModified", "Conflict"}

\* The column `state'.
StateName(state) ==
    CASE state = "Synced" -> "synced"
      [] state = "CloudOnly" -> "cloud_only"
      [] state = "Syncing" -> "syncing"
      [] state = "Pending" -> "pending"
      [] state = "Error" -> "error"
      [] state = "Excluded" -> "excluded"
      [] state = "OfflineModified" -> "offline_modified"
      [] state = "Conflict" -> "conflict"

\* A File as a row, and File::from_row.
ToRow(file) == [file EXCEPT !.state = StateName(@)]
FileOfRow(row) == [row EXCEPT !.state = CHOOSE s \in FileState : StateName(s) = @]

\* cloud_item_to_db_file: File::new, with the state CloudOnly.
NewFile(account, file, path) ==
    [account |-> account, file |-> file, path |-> path, state |-> "CloudOnly"]

\* get_file_by_provider_id: the ids of the rows that match, one or none.
RowsOfFile(db, account, file) ==
    {r \in DOMAIN db.files : db.files[r].account = account /\ db.files[r].file = file}

\* get_file_by_cloud_path: paths are made of names and not unique; query_row takes
\* the first of the rows, which both indexes hold in the order of the ids.
RowsAtPath(db, account, path) ==
    LET found == {r \in DOMAIN db.files : db.files[r].account = account /\ db.files[r].path = path}
    IN  {r \in found : \A q \in found : r <= q}

\* create_file is a Conflict: UNIQUE(account_id, provider_file_id), or the foreign key.
FileConflicts(db, file) ==
    \/ RowsOfFile(db, file.account, file.file) # {}
    \/ ForeignKeys /\ ~ HasAccount(db, file.account)

create_file(db, file) == [db EXCEPT !.files = With(@, db.next, ToRow(file)), !.next = @ + 1]

\* update_file: every column of the row with this id; no row is Ok(false).
update_file(db, id, file) ==
    IF id \in DOMAIN db.files THEN [db EXCEPT !.files[id] = ToRow(file)] ELSE db

\* delete_file and delete_files_by_account
delete_file(db, id) == [db EXCEPT !.files = Without(@, {id})]
delete_files_by_account(db, account) ==
    [db EXCEPT !.files = Without(@, {r \in DOMAIN @ : @[r].account = account})]

-----------------------------------------------------------------------------
(* sync_cursors                                                            *)

\* upsert_cursor fails on the foreign key.
CursorConflicts(db, account) == ForeignKeys /\ ~ HasAccount(db, account)
upsert_cursor(db, account, cursor) == [db EXCEPT !.cursors = With(@, account, cursor)]
delete_cursor(db, account) == [db EXCEPT !.cursors = Without(@, {account})]
=============================================================================
