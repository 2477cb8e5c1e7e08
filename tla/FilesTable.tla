----------------------------- MODULE FilesTable -----------------------------
(***************************************************************************)
(* The `files' table of cloudsync-db for one account, as a function from   *)
(* provider file ids to rows.  The table has UNIQUE(account_id,            *)
(* provider_file_id), so a function is exact; a file without a row is      *)
(* mapped to NoRow.                                                        *)
(*                                                                         *)
(* A row's provider metadata (name, path, size, hash, is_folder,           *)
(* modified_at) is abstracted to `ver', the position in the provider's     *)
(* change log of the change it was copied from; `stamped' says whether     *)
(* synced_at is set.  Every operator below is what one closure passed to   *)
(* Database::with_conn does; the connection mutex makes each of them one   *)
(* atomic step of the program.                                             *)
(***************************************************************************)
EXTENDS Naturals

FileState == {"Synced", "CloudOnly", "Syncing", "Pending", "Error",
              "Excluded", "OfflineModified", "Conflict"}

Row == [ver : Nat \ {0}, state : FileState, stamped : BOOLEAN]

NoRow == [ver |-> 0, state |-> "NoRow", stamped |-> FALSE]

Table(files) == [files -> Row \cup {NoRow}]

\* get_file_by_provider_id returns Some.
HasRow(rows, f) == rows[f] # NoRow

\* create_file: the INSERT.  Its caller has seen that there is no row.
create_file(rows, f, row) == [rows EXCEPT ![f] = row]

\* update_file: the UPDATE by primary key of a row that was just read.
update_file(rows, f, row) == [rows EXCEPT ![f] = row]

delete_file(rows, f) == [rows EXCEPT ![f] = NoRow]

(***************************************************************************)
(* Read-modify-write closures built from the operations above.             *)
(***************************************************************************)

\* A fresh row for a cloud item: nothing of its content is local.
cloud_item_to_db_file(v) == [ver |-> v, state |-> "CloudOnly", stamped |-> FALSE]

\* MetadataSyncer::upsert_cloud_item: an existing row keeps state and synced_at.
upsert_cloud_item(rows, f, v) ==
    IF HasRow(rows, f)
    THEN update_file(rows, f, [rows[f] EXCEPT !.ver = v])
    ELSE create_file(rows, f, cloud_item_to_db_file(v))

\* The deletion branch of MetadataSyncer::apply_change.
delete_if_present(rows, f) ==
    IF HasRow(rows, f) THEN delete_file(rows, f) ELSE rows

\* ContentCache::update_file_state and ::update_synced_at: no row, no effect.
update_file_state(rows, f, s) ==
    IF HasRow(rows, f)
    THEN update_file(rows, f, [rows[f] EXCEPT !.state = s])
    ELSE rows

update_synced_at(rows, f) ==
    IF HasRow(rows, f)
    THEN update_file(rows, f, [rows[f] EXCEPT !.stamped = TRUE])
    ELSE rows
=============================================================================
