---------------------------- MODULE CloudSyncFS -----------------------------
(***************************************************************************)
(* The mounted filesystem of cloudsync-vfs (filesystem.rs, cache.rs) over  *)
(* the files table, the inodes and the cached copies, with the metadata    *)
(* sync thread changing the table between the callbacks and within open.   *)
(* The FUSE session calls the callbacks one at a time; one that only       *)
(* replies (getattr, read, any error) is not an action, but what getattr   *)
(* and read would reply is defined.                                        *)
(*                                                                         *)
(* All files are children of the root.  A path is its rank in the order of *)
(* paths: files are renamed, and several may have the same path.  The sync *)
(* thread and ensure_downloaded are MetadataSync's and ContentCache's, in  *)
(* coarser steps.                                                          *)
(***************************************************************************)
EXTENDS Integers, FiniteSets, FilesTable

CONSTANTS Files,        \* numbers, in the order that files of the same path are listed in
          Paths,        \* ranks in the order of paths
          NoFile,       \* no file
          BufSize,      \* entries that fit in one reply of readdir
          MaxVer,       \* bound: changes in the cloud
          MaxDeletes,   \* bound: files removed from the cloud
          MaxFaults,    \* bound: callbacks in which the inodes of some files fail
          MaxOpens,     \* bound: file handles
          MaxMounts     \* bound: mounts

ASSUME ConstantsAssumption ==
    /\ IsFiniteSet(Files) /\ Files \subseteq Nat
    /\ Paths \subseteq Nat
    /\ NoFile \notin Files
    /\ BufSize \in Nat \ {0}
    /\ MaxVer \in Nat
    /\ MaxDeletes \in Nat
    /\ MaxFaults \in Nat
    /\ MaxOpens \in Nat
    /\ MaxMounts \in Nat

VARIABLES
    cloud,          \* the version of each file in the cloud; 0: it is not there
    name,           \* the path of each file in the cloud
    ver, deletes,   \* changes and removals so far
    rows,           \* the files table, of which
    path,           \* the path column of each row
    inodes,         \* the inode of each file; 0: none
    next_inode,
    faults,
    disk,           \* the version of each cached copy; 0: none, Broken: a part
    open_files,     \* the file whose cached path each handle has
    next_fh,
    downloading,    \* the file that open is downloading,
    meant,          \* and the one the kernel meant
    mounts,
    \* the kernel's side:
    known,          \* <<inode, file>> for the names it has looked up or listed
    handles,        \* what it opened: the file it meant, and the version it got
    stream,         \* a directory that is being listed: offset and files seen
    steady          \* history: the files that the listing has to show

kernelVars == <<known, handles, stream, steady>>
cloudVars == <<cloud, name, ver, deletes>>
table == <<rows, path>>
inodeVars == <<inodes, next_inode, faults>>
openVars == <<open_files, next_fh, downloading, meant>>
vars == <<cloudVars, table, inodeVars, disk, openVars, mounts, kernelVars>>

Broken == -1
FUSE_ROOT_INODE == 1
Handle == 1..MaxOpens
NoHandle == [file |-> NoFile, ver |-> 0]

TypeOK ==
    /\ cloud \in [Files -> Nat]
    /\ ver \in Nat /\ deletes \in Nat
    /\ name \in [Files -> Nat]
    /\ rows \in Table(Files)
    /\ path \in [Files -> Nat]
    /\ inodes \in [Files -> Nat]
    /\ next_inode \in Nat
    /\ faults \in Nat
    /\ disk \in [Files -> Nat \cup {Broken}]
    /\ open_files \in [Handle -> Files \cup {NoFile}]
    /\ next_fh \in Nat
    /\ downloading \in Files \cup {NoFile}
    /\ meant \in Files \cup {NoFile}
    /\ mounts \in Nat
    /\ known \subseteq Nat \X Files
    /\ handles \in [Handle -> [file : Files \cup {NoFile}, ver : Nat \cup {Broken}]]
    /\ stream \in [open : BOOLEAN, off : Nat, seen : SUBSET Files]
    /\ steady \subseteq Files

Closed == [open |-> FALSE, off |-> 0, seen |-> {}]

Init ==
    /\ cloud = [f \in Files |-> 0]
    /\ ver = 0 /\ deletes = 0
    /\ name = [f \in Files |-> 0]
    /\ rows = [f \in Files |-> NoRow]
    /\ path = [f \in Files |-> 0]
    /\ inodes = [f \in Files |-> 0]
    /\ next_inode = FUSE_ROOT_INODE + 1
    /\ faults = 0
    /\ disk = [f \in Files |-> 0]
    /\ open_files = [h \in Handle |-> NoFile]
    /\ next_fh = 1
    /\ downloading = NoFile
    /\ meant = NoFile
    /\ mounts = 1
    /\ known = {}
    /\ handles = [h \in Handle |-> NoHandle]
    /\ stream = Closed
    /\ steady = {}

\* get_children("/")
Children == {f \in Files : HasRow(rows, f)}

\* The order of list_files: by path.
Before(g, f) == path[g] < path[f] \/ (path[g] = path[f] /\ g < f)

\* The place of f in the listing that shows the files S, after "." and "..".
Index(S, f) == 2 + Cardinality({g \in S : g = f \/ Before(g, f)})
Entries(S) == 2 + Cardinality(S)

\* The listing under way has had a reply with f in it, or is past its place.
Past(f) == f \in Children /\ Index(Children, f) <= stream.off

-----------------------------------------------------------------------------
(* The cloud and the sync thread.                                          *)

\* A file is created, changed, or renamed.
CloudPut(f) ==
    /\ ver < MaxVer
    /\ ver' = ver + 1
    /\ cloud' = [cloud EXCEPT ![f] = ver + 1]
    /\ \E p \in Paths : name' = [name EXCEPT ![f] = p]
    /\ UNCHANGED <<deletes, table, inodeVars, disk, openVars, mounts, kernelVars>>

CloudDelete(f) ==
    /\ cloud[f] # 0
    /\ deletes < MaxDeletes
    /\ deletes' = deletes + 1
    /\ cloud' = [cloud EXCEPT ![f] = 0]
    /\ UNCHANGED <<name, ver, table, inodeVars, disk, openVars, mounts, kernelVars>>

\* apply_change with an item, or an item of the listing: the row gets the path too.
\* A file that is renamed while the root is listed may be missed, or shown twice; and
\* when it was before the offset and is now after g, g has moved up.
SyncUpsert(f) ==
    /\ cloud[f] # 0
    /\ rows[f].ver # cloud[f]
    /\ rows' = upsert_cloud_item(rows, f, cloud[f])
    /\ path' = [path EXCEPT ![f] = name[f]]
    /\ steady' = {g \in steady : /\ g = f => path'[f] = path[f]
                                 /\ Past(f) /\ Before(f, g) => Before(f, g)'}
    /\ UNCHANGED <<cloudVars, inodeVars, disk, openVars, mounts, known, handles, stream>>

\* apply_change of a removed file: neither the inode nor the copy is removed.
\* When it was before the offset of a listing, the entries after it move up, and
\* the listing may miss them.
SyncDelete(f) ==
    /\ cloud[f] = 0
    /\ HasRow(rows, f)
    /\ rows' = delete_if_present(rows, f)
    /\ steady' = {g \in steady \ {f} : Past(f) => Before(g, f)}
    /\ UNCHANGED <<cloudVars, path, inodeVars, disk, openVars, mounts, known, handles, stream>>

-----------------------------------------------------------------------------
(* Directories.                                                            *)

\* inode_manager.get_or_allocate succeeds for the files S, one by one in their order.
\* It fails for others in between, as when the table refuses an inode that it has
\* already; the files W of these have used up a number.
get_or_allocate(S, W) ==
    LET fresh == {f \in S : inodes[f] = 0}
    IN  /\ inodes' = [f \in Files |->
                         IF f \in fresh
                         THEN next_inode + Cardinality({g \in fresh \cup W : Before(g, f)})
                         ELSE inodes[f]]
        /\ next_inode' = next_inode + Cardinality(fresh \cup W)

Fault ==
    /\ faults < MaxFaults
    /\ faults' = faults + 1

\* lookup of the name that f has: the first child of that name.
Found(f) ==
    /\ downloading = NoFile
    /\ f \in Children
    /\ \A g \in Children : path[g] = path[f] => ~ Before(g, f)

Lookup(f) ==
    /\ Found(f)
    /\ get_or_allocate({f}, {})
    /\ known' = known \cup {<<inodes'[f], f>>}
    /\ UNCHANGED <<cloudVars, table, faults, disk, openVars, mounts, handles, stream, steady>>

\* get_or_allocate fails: EIO.  A number may be gone.
LookupFails(f) ==
    /\ Found(f)
    /\ inodes[f] = 0
    /\ Fault
    /\ get_or_allocate({}, {f})
    /\ UNCHANGED <<cloudVars, table, disk, openVars, mounts, kernelVars>>

\* The kernel begins to list the root.
Opendir ==
    /\ ~ stream.open
    /\ stream' = [open |-> TRUE, off |-> 0, seen |-> {}]
    /\ steady' = Children
    /\ UNCHANGED <<cloudVars, table, inodeVars, disk, openVars, mounts, known, handles>>

\* Mutant of NextOffset: the offset of an entry is one too large.
NextOffsetPlusOne(S) == stream.off + BufSize + 1

\* The offset of the last entry that fits, from which the kernel goes on.
NextOffset(S) ==
    IF stream.off >= Entries(S) THEN stream.off
    ELSE IF stream.off + BufSize <= Entries(S) THEN stream.off + BufSize ELSE Entries(S)

\* readdir: every child gets an inode, and a child D for which that fails is left out.
\* The entries from the offset on are returned as far as they fit; a reply without
\* entries ends the listing.  Where a child before the offset is left out, the entries
\* after it have moved up.
Readdir ==
    /\ downloading = NoFile
    /\ stream.open
    /\ \E D \in SUBSET Children :
         LET S == Children \ D
             shown == {f \in S : Index(S, f) \in stream.off + 1 .. stream.off + BufSize}
         IN  /\ IF D = {} THEN UNCHANGED faults ELSE Fault
             /\ \E W \in SUBSET {f \in D : inodes[f] = 0} : get_or_allocate(S, W)
             /\ known' = known \cup {<<inodes'[f], f>> : f \in shown}
             /\ stream' = [open |-> stream.off < Entries(S),
                           off |-> NextOffset(S),
                           seen |-> stream.seen \cup shown]
             /\ steady' = {g \in steady \ D : \A d \in D : Past(d) => Before(g, d)}
    /\ UNCHANGED <<cloudVars, table, disk, openVars, mounts, handles>>

-----------------------------------------------------------------------------
(* Files.                                                                  *)

\* The reply of open: a fresh handle on the cached path of g, for the kernel
\* that meant the file f.
Opened(f, g, v) ==
    /\ next_fh \in Handle
    /\ next_fh' = next_fh + 1
    /\ open_files' = [open_files EXCEPT ![next_fh] = g]
    /\ handles' = [handles EXCEPT ![next_fh] = [file |-> f, ver |-> v]]

\* get_file_id(i), and the row is there.
Resolves(i, g) == inodes[g] = i /\ g \in Children

CacheState == {"CloudOnly", "Downloading", "Cached", "Modified"}

file_state_to_cache_state(state) ==
    CASE state = "Synced" -> "Cached"
      [] state = "Syncing" -> "Downloading"
      [] state = "OfflineModified" -> "Modified"
      [] OTHER -> "CloudOnly"

\* MetadataCache::get; the metadata is that of a version.
CachedFile(g) ==
    [file_id |-> g, ver |-> rows[g].ver, state |-> file_state_to_cache_state(rows[g].state)]

cached_file_to_attr(file, i) == [ino |-> i, of |-> file.file_id, ver |-> file.ver]
get_root_attr == [ino |-> FUSE_ROOT_INODE, of |-> NoFile, ver |-> 0]

\* What getattr(i) replies: the attributes, in a set, or ENOENT.
Getattr(i) ==
    IF i = FUSE_ROOT_INODE THEN {get_root_attr}
    ELSE {cached_file_to_attr(CachedFile(g), i) : g \in {f \in Files : Resolves(i, f)}}

\* Mutant of OpenCached: a cached copy that is not of the row's version is
\* downloaded again.
OpenCachedIfCurrent(i, f, g) ==
    /\ downloading = NoFile
    /\ <<i, f>> \in known /\ Resolves(i, g)
    /\ disk[g] # 0
    /\ \/ disk[g] = rows[g].ver /\ Opened(f, g, disk[g]) /\ UNCHANGED <<downloading, meant>>
       \/ /\ disk[g] # rows[g].ver /\ downloading' = g /\ meant' = f
          /\ UNCHANGED <<next_fh, open_files, handles>>
    /\ UNCHANGED <<cloudVars, table, inodeVars, disk, mounts, known, stream, steady>>

\* open(i): ensure_downloaded finds a cached copy.
OpenCached(i, f, g) ==
    /\ downloading = NoFile
    /\ <<i, f>> \in known /\ Resolves(i, g)
    /\ disk[g] # 0
    /\ Opened(f, g, disk[g])
    /\ UNCHANGED <<cloudVars, table, inodeVars, disk, downloading, meant, mounts, known, stream,
                   steady>>

\* open(i): ensure_downloaded begins a download.
OpenMissing(i, f, g) ==
    /\ downloading = NoFile
    /\ <<i, f>> \in known /\ Resolves(i, g)
    /\ disk[g] = 0
    /\ next_fh \in Handle
    /\ downloading' = g /\ meant' = f
    /\ rows' = update_file_state(rows, g, "Syncing")
    /\ UNCHANGED <<cloudVars, path, inodeVars, disk, open_files, next_fh, mounts, kernelVars>>

\* ... which succeeds, with what the cloud has now.
DownloadDone ==
    LET g == downloading
    IN  /\ g # NoFile
        /\ cloud[g] # 0
        /\ disk' = [disk EXCEPT ![g] = cloud[g]]
        /\ rows' = update_synced_at(update_file_state(rows, g, "Synced"), g)
        /\ downloading' = NoFile /\ meant' = NoFile
        /\ Opened(meant, g, cloud[g])
        /\ UNCHANGED <<cloudVars, path, inodeVars, mounts, known, stream, steady>>

\* ... or fails, and may leave a part of the file; a cloud-native file is
\* refused before anything is written, and its row is left as it is.
DownloadFails ==
    LET g == downloading
    IN  /\ g # NoFile
        /\ \/ /\ \E d \in {0, Broken} : disk' = [disk EXCEPT ![g] = d]
              /\ rows' = update_file_state(rows, g, "Error")
           \/ UNCHANGED <<disk, rows>>
        /\ downloading' = NoFile /\ meant' = NoFile
        /\ UNCHANGED <<cloudVars, path, inodeVars, open_files, next_fh, mounts, kernelVars>>

\* ContentCache::read_file_at: the content of the cached path, here its version.
read_file_at(g) == disk[g]

\* What read replies on a handle: the content of the cached path, or EBADF.
Read(h) == IF open_files[h] = NoFile THEN NoHandle
           ELSE [file |-> open_files[h], ver |-> read_file_at(open_files[h])]

\* release
Release(h) ==
    /\ downloading = NoFile
    /\ handles[h] # NoHandle
    /\ open_files' = [open_files EXCEPT ![h] = NoFile]
    /\ handles' = [handles EXCEPT ![h] = NoHandle]
    /\ UNCHANGED <<cloudVars, table, inodeVars, disk, next_fh, downloading, meant, mounts, known,
                   stream, steady>>

\* The mount ends, by unmounting or a crash, and the filesystem is mounted
\* again: the tables and the copies stay, a download leaves what it has, and the
\* counter of inodes is restored from the table, which has the root's inode.
Remount ==
    /\ mounts < MaxMounts
    /\ mounts' = mounts + 1
    /\ \/ downloading = NoFile /\ UNCHANGED disk
       \/ /\ downloading # NoFile
          /\ \E d \in {0, Broken} : disk' = [disk EXCEPT ![downloading] = d]
    /\ \E m \in {inodes[f] : f \in Files} \cup {FUSE_ROOT_INODE} :
         /\ \A f \in Files : inodes[f] <= m
         /\ m >= FUSE_ROOT_INODE
         /\ next_inode' = m + 1
    /\ downloading' = NoFile /\ meant' = NoFile
    /\ open_files' = [h \in Handle |-> NoFile]
    /\ next_fh' = 1
    /\ known' = {}
    /\ handles' = [h \in Handle |-> NoHandle]
    /\ stream' = Closed
    /\ steady' = {}
    /\ UNCHANGED <<cloudVars, table, inodes, faults>>

Next ==
    \/ \E f \in Files :
         \/ CloudPut(f) \/ CloudDelete(f) \/ SyncUpsert(f) \/ SyncDelete(f)
         \/ Lookup(f) \/ LookupFails(f)
    \/ Opendir \/ Readdir
    \/ \E k \in known, g \in Files : OpenCached(k[1], k[2], g) \/ OpenMissing(k[1], k[2], g)
    \/ DownloadDone \/ DownloadFails
    \/ \E h \in Handle : Release(h)
    \/ Remount

Spec == Init /\ [][Next]_vars

-----------------------------------------------------------------------------
(* Properties.                                                             *)

\* As long as the kernel holds a handle, read on it replies what it did when it
\* was opened: the file the kernel meant, and the same version, whatever is
\* opened, released, synced, changed and deleted meanwhile.
ReadsAsOpened == \A h \in Handle : handles[h] # NoHandle => Read(h) = handles[h]

\* A listing in several replies, each of which lists the rows anew, shows every file
\* that kept its row and its path and got an inode each time, whatever rows come and go
\* before and after it.  What it may miss is a file behind one that the listing was past
\* and that was then deleted, renamed to a place behind it, or left out of a reply.
ListingComplete == ~ stream.open => steady \subseteq stream.seen

\* What FileState::Synced says: the file is fully synchronized, that is, the copy
\* which open serves is not older than the version whose size and time getattr
\* replies.
SyncedMeansCurrent ==
    \A f \in Files : CachedFile(f).state = "Cached" =>
        \A a \in Getattr(inodes[f]) : read_file_at(f) >= a.ver

-----------------------------------------------------------------------------
(***************************************************************************)
(* The inductive invariant (proved in CloudSyncFS_proofs).                 *)
(***************************************************************************)

\* Inodes are distinct and not the root's, and what the kernel knows is so; a copy that has a
\* handle exists and is not being downloaded; handles from next_fh on are free.
HandleInv ==
    /\ TypeOK
    /\ next_inode > FUSE_ROOT_INODE
    /\ \A f \in Files : inodes[f] < next_inode /\ inodes[f] # FUSE_ROOT_INODE
    /\ \A f, g \in Files : inodes[f] = inodes[g] /\ inodes[f] # 0 => f = g
    /\ \A k \in known : k[1] # 0 /\ inodes[k[2]] = k[1]
    /\ downloading # NoFile => disk[downloading] = 0 /\ meant = downloading /\ next_fh \in Handle
    /\ \A h \in Handle : open_files[h] # NoFile => disk[open_files[h]] # 0
    /\ \A h \in Handle : h >= next_fh => open_files[h] = NoFile /\ handles[h] = NoHandle
    /\ ReadsAsOpened

\* What has to be shown and lies before the offset has been shown.
ListingInv ==
    /\ TypeOK
    /\ steady \subseteq Children
    /\ \A f \in steady : Index(Children, f) <= stream.off => f \in stream.seen
    /\ ListingComplete
=============================================================================
