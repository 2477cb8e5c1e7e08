------------------------------- MODULE GDrive -------------------------------
(***************************************************************************)
(* What GoogleDriveProvider (provider.rs of cloudsync-providers) and the   *)
(* URL builder of cloudsync-core (browser.rs) make of Drive's answers.  A  *)
(* File of the API is a function on the fields it has, its name a sequence *)
(* of parts between slashes or backslashes.  A MIME type is known by its   *)
(* family, "google-apps" or another one, and its kind.                     *)
(***************************************************************************)
EXTENDS PathResolver

Get(file, field, default) == IF field \in DOMAIN file THEN file[field] ELSE default

Folder == <<"google-apps", "folder">>
NoType == <<"none", "none">>

\* GoogleDriveUrlBuilder::is_cloud_native
is_cloud_native(mime) == mime[1] = "google-apps"

\* GoogleDriveUrlBuilder::build_web_url: the application's page of the file, Drive's
\* viewer for the other kinds; no URL for a file with content of its own.
build_web_url(id, mime) ==
    IF ~ is_cloud_native(mime) THEN <<>>
    ELSE <<IF mime[2] \in {"document", "spreadsheet", "presentation", "form", "drawing"}
           THEN mime[2] ELSE "viewer", id>>

\* GoogleDriveProvider::file_to_cloud_item succeeds.
Convertible(file) == {"id", "name", "modifiedTime"} \subseteq DOMAIN file

\* ... with a CloudItem; the path is made of the name alone.  Its size, hash and times
\* are left out.
file_to_cloud_item(file) ==
    [id |-> file.id, path |-> CloudPath(<<file.name>>),
     is_folder |-> Get(file, "mimeType", NoType) = Folder]

\* list_folder's loop: what cannot be converted is left out.
ListedItems(files) == {file_to_cloud_item(f) : f \in {g \in files : Convertible(g)}}

\* get_changes' loop, for one change of the feed: the Change that it becomes, or none.
\* `item' is a set of at most one.
ToChange(change) ==
    LET deleted == change.removed \/ \E f \in change.file : Get(f, "trashed", FALSE)
        skipped == ~ deleted /\ \E f \in change.file : ~ Convertible(f)
    IN  IF "fileId" \notin DOMAIN change \/ skipped THEN {}
        ELSE {[file_id |-> change.fileId, deleted |-> deleted,
               item |-> IF deleted THEN {} ELSE ListedItems(change.file)]}
=============================================================================
