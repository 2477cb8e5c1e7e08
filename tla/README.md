# CloudSync: specifications, model checks and proofs

CloudSync shows a Google Drive account as a local folder. A **daemon**
(`cloudsync-daemon`) downloads files and answers shell extensions on a Unix
socket. A **FUSE mount** (`cloudsync-vfs`) shows the account's metadata and
downloads contents on demand. Both keep their state in SQLite (`cloudsync-db`).
They are separate processes: the daemon never mounts, and a mount runs no
`SyncEngine`. This directory models the parts where steps of several actors,
failures and restarts meet, checks them with TLC on small instances, and proves
with TLAPS what holds for every value of the constants.

`PROJECT.json` lists the components, runs, mutants, findings, hazards and
theorems, and maps each definition to the lines it models.

## 1. Inventory

| Component | State | Operations | Used by / uses |
|---|---|---|---|
| `MetadataSyncer` and its thread (`metadata_sync.rs`) | rows of `files`, the cursor in `sync_cursors`, the stop flag | `initial_sync`, `incremental_sync`, `apply_change`, `start_background_sync`, `SyncHandle::stop` and `Drop` | started by a mount; reads the provider, writes the table |
| `ContentCache` (`content_cache.rs`) | the cached copies on disk, a status and mutex per file, the rows' state and `synced_at` | `ensure_downloaded`, `read_file_at` | called by FUSE `open` and `read`; calls the provider's `download` |
| `CloudSyncFS`, `MetadataCache` (`filesystem.rs`, `cache.rs`) | `open_files`, `next_fh`; all else is read from the tables | `lookup`, `getattr`, `readdir`, `open`, `read`, `release` | called by the kernel, one callback at a time (`&mut self`) |
| `InodeManager`, `vfs_inodes` | the table, a counter per mount | `new`, `get_or_allocate`, `get_file_id`, `remove` | called by `CloudSyncFS`; `remove` has no caller outside tests |
| `SyncQueue`, `SyncOperation` (`queue.rs`, `operation.rs`) | a binary heap under a mutex | `push`, `pop`, `peek`, `remove`, `list`, `list_by_priority`, `clear` | used by `SyncEngine` |
| `SyncEngine` and the loop of `main.rs` | the queue, the local copies; nothing is persisted | `initial_sync`, `refresh_sync`, `execute_operations` | driven by the daemon's timer |
| `IpcServer` (`server.rs`) | the socket file, the listener | `bind`, `run`, `shutdown`, `Drop` | the daemon; clients connect |
| `IpcClient`, `handle_connection`, transport | one stream with its buffered reader, a watch channel | `request`, `read_message`, `write_message` | shell extensions and the daemon |
| `DaemonHandler`, `PathResolver` | rows' state; the accounts as read at start; an action channel that is never set | seven requests | called by `handle_connection`; writes the files table |
| Files, accounts and cursor tables (`files.rs`, `accounts.rs`, `sync_cursors.rs`) | one row per file of an account, per account, per cursor | create, read, update, delete, list, with foreign keys that cascade | everything above, in two processes |
| `Database`, migrations (`connection.rs`, `migrations.rs`) | the database file, its version, WAL mode, a mutex per connection | `open`, `with_conn`, `run_migrations` | the daemon and every mount, each with its own list of migrations |
| Configuration (`cloudsync-config`) | one TOML file | `load`, `save`, `validate`, `create_directories` | the daemon's start |
| Start of the daemon (`main.rs`) | | configuration, sync folder, database, client, socket, in this order | all of the above |
| OAuth, client, token storage (`gdrive/`) | tokens in a keyring, a file or both, and in a cache | `OAuthConfig`, `GoogleDriveClient::new`, `SecureTokenStorage::get` and `set` | yup-oauth2 calls the storage |
| Google Drive provider | none (the account is external) | `list_folder`, `get_changes`, `download` | sync engine, metadata sync, content cache |

What is hard here:

- *concurrency*: callers of `ensure_downloaded` on one file; the sync thread
  changing rows between, and within, FUSE callbacks; mounts that share a
  database; closures of two processes on one row; processes that migrate one
  database at a time; `get` and `set` of tokens; the branches of `select!`;
- *failure*: a page of the change feed applied in part; a download that breaks
  off; a crash between the bytes on disk, the row and its time stamp; a killed
  daemon's socket file; a list of migrations that is left half way; a
  configuration or token file that is cut off; a keyring that goes down;
- *ordering and time*: a listing and its start token; a response that arrives
  after its timeout; offsets into a directory that changes between replies;
- *liveness*: catching up with the cloud after failures; ending after `stop` or
  `shutdown`; callers that wait for each other.

The list of hazards in `PROJECT.json` has each at its line, with the properties
that would catch it.

## 2. Modules

| Module | Models | Actors that interleave |
|---|---|---|
| `FilesTable` | the rows, and the read-modify-write closures on them | (operators only) |
| `MetadataSync` | the sync thread against an append-only change log | cloud, thread, `stop`, crash, restart |
| `ContentCache` | `ensure_downloaded` from lock to lock, the download's effect on disk | callers, other writers of the row, crash |
| `QueueOps` | the heap's order, `list`, `remove` as operators | |
| `SyncQueue` | tasks that share a queue | tasks, clock |
| `SyncEngine` | the daemon's loop over the same `QueueOps` | cloud, task |
| `InodeManager` | allocation statement by statement | mounts on one database |
| `IpcSocket` | `bind` and `drop` call by call | daemons, kills |
| `IpcConnection` | one connection, both ends, lines in two parts | client, server task, rest of the daemon |
| `CloudSyncFS` | the mount: callbacks, inodes, copies and the sync thread together | kernel, sync thread, cloud, remount |
| `PathResolver` | `CloudPath`, provider slugs, `resolve_local`, `to_local` | (operators only) |
| `Tables` | the statements on accounts, files and cursors, with constraints, cascades and the names that rows hold | (operators only) |
| `GDrive` | what the provider makes of an answer of the service: items, changes, URLs | (operators only) |
| `DaemonHandler` | the seven requests statement by statement, on a database that a mount and an account tool write too | tasks of the daemon, tasks of a mount, account tool, restart |
| `Configuration`, `OAuth` | defaults, validation, parsing, what a broken save leaves; the client's choice of a token storage | (operators only) |
| `Schema` | what the migration runner promises of a database file: an abstract specification | |
| `DaemonStart` | the start of a daemon and of mounts, with `Database::open` step by step; refines `Schema` | processes, settings, kills |
| `TokenStorage` | `SecureTokenStorage` with its cache and three backends | tasks, keyring, restart |

`M_proofs` holds the theorems about `M`. Three of these modules are about two
components each: `Ipc_proofs` (`IpcConnection`, `IpcSocket`), `Sync_proofs`
(`SyncEngine`, `SyncQueue`) and `Daemon_proofs` (`DaemonStart`, `DaemonHandler`).
As they extend both, `IpcSocket`, `SyncQueue` and `DaemonHandler` have names of
their own for what every module has: `SocketSpec`, `QueueSpec`, `HandlerSpec` and
so on; `QueueOps` declares the queue that its two users share. `MCM` with
`MCM.cfg` or `MCM_*.cfg` are the TLC instances of `M`. `MCIpc` and `MCSync` are
about two modules each, `IpcSocket` and `IpcConnection`, `SyncQueue` and
`SyncEngine`: as these do not act on each other, a behaviour is one of either
(`part`), with the other as it is in the beginning. `FilesTable` is shared by `MetadataSync`, `ContentCache` and
`CloudSyncFS`, and `QueueOps` by `SyncQueue` and `SyncEngine`, so that the
components are checked against the same operations. `DaemonHandler` composes
`Tables` and `GDrive`, both on `PathResolver`; `DaemonStart` extends
`Configuration` and has an instance of `Schema`; `TokenStorage` extends `OAuth`.
`FilesTable` is one account's table as one process sees it, where a closure is a
step; `Tables` is the whole database, for two processes, where a statement is.

How state and steps correspond to the code:

- **Steps.** A `with_conn` closure holds the connection's mutex, so within a
  process it is one step. A provider call is one step with its possible failure.
  `ContentCache` and `DaemonHandler` have the mutex as a variable, as their
  callers wait for it (with a status mutex in their hands in the former). Where
  two processes share the database (`InodeManager`, `DaemonHandler`,
  `DaemonStart`) the step is one SQL statement;
  on the socket's path the step is one system call. `UnixListener::bind`'s `bind` and
  `listen` are one step.
- **Data.** A file is a model value or a number, a path in `CloudSyncFS` its rank
  in the order of paths. A file's metadata and its content are named by the position of the change that made
  them: `ver` of a row, `disk`, `local`. A cursor is a number of changes.
- **Failure.** Failing provider calls and database updates, crashes and
  restarts are actions, bounded by `MaxFaults`, `MaxCrashes`, `MaxRestarts`,
  `MaxMounts`, `MaxStarts`. A crash keeps tables and files on disk and loses
  everything else.
- **History variables** (named so where they are declared) are written by the
  actions and read by properties only. Some of them say when a promise
  stops holding, so that one run, and one theorem if there is one, covers both sides of it:
  `contended` (files of which two calls of `ensure_downloaded` overlapped),
  `shared` (mounts overlapped), `overlapped` (binds overlapped), `steady` (files
  that a listing owes its reader), `mixed` (rows that closures of both processes
  had read at a time), `stale` (the accounts changed after the daemon read them),
  `clean` (no save of the settings was under way or broken off), `raced`,
  `keyringFailed` and `broken` (a `get` raced a `set`, the keyring went down or
  refused a list while it held an older one, a write of the token file broke off).
  Where a doc or comment promises what such a condition takes away, section 6
  says so.

`MetadataSync`: `pc` is where the thread is in `start_background_sync`,
`initial_sync` or `incremental_sync`; `List`, `StoreItem`, `GetToken` and
`SaveToken` are the former's calls, `ReadCursor`, `Fetch`, `ApplyChange` and
`SaveCursor` the latter's. `Fail` is any of them returning an error: the thread
logs it and waits for its interval.

`ContentCache`: per caller `pc` goes from the fast path (`OpenCached`,
`OpenMissing`) through the lock (`GetLock`, `CheckDone`, `CheckProceed`), the
row (`MarkSyncing`), the download (`RequestFails`, `RequestNative`,
`CreateDest`, `StreamDone`, `StreamFails`) to the second lock and the rows
behind it. `CreateDest` truncates: the provider opens the destination with
`File::create`. Every update of a row takes the connection's mutex first
(`LockConn`), after a download with the file's status mutex held. The mutex of
`download_locks` is held for one lookup and nothing is waited for under it, so
`GetLock` is a step.

`SyncEngine`: the daemon as it is. `refresh_sync` is given `None` at every tick,
for which the provider answers with no changes and a cursor for now (`FetchNone`),
which `main` logs and drops. So only the initial listing ever fills the queue.

`IpcConnection`: a line travels in two parts, so that a `read_line` that is
dropped, by `timeout` or `select!`, may have consumed the first one. `gone`
says that the watch channel's sender was dropped without a shutdown, which
happens when `accept` fails.

`CloudSyncFS`: the composition. The sync thread's upserts and deletions are
single steps between callbacks and during the download inside `open`; an upsert
writes the path too, so files are renamed, also to the path of another one, and
change their place in the order of `list_files`. `Readdir` leaves out children
whose inode cannot be read or inserted (`Err(_) => continue`), and a lookup of such
a file fails; either may use up a number of the counter, as when the table refuses
an inode that it has already. `steady` are the files that a listing
under way has to show: those there from its beginning, less what is deleted,
renamed or left out, and less what stands behind one of these that the listing was
past. `ensure_downloaded` has its fast path, a download that succeeds, and one that
fails; its locks are `ContentCache`'s subject. `known` is what the kernel has
been told, `handles` what it believes it has opened; `getattr` is an operator on
the current tables, as it changes nothing.

`DaemonHandler`: a request is resolved against the snapshot of accounts
(`Resolve`, with the error replies), and then runs a closure: `Select` takes the
connection's mutex and reads, `Update` writes all columns of the row that was
read and frees it; `stage` is where a task is. The accounts that the daemon knows
are in one of the orders that `list_accounts` may return: `created_at` is in whole
seconds of a clock that may be set back, and accounts of one time have no order.
Local paths are resolved by `Path::components`, which drops empty and `.` names;
cloud paths keep such parts. A mount's tasks run the same pair for changes of the feed and
for states of downloads (`MountSelect`, `MountWrite`) and store the cursor; the
account tool's calls are single statements. A batch answers its paths
one after the other: `todo` is what is left of it.

`DaemonStart`: `LoadConfig`, `EnsureRoot`, `Open`, `PendingMigrations`,
`RunMigration`, `Commit`, `CreateClient`, `BindServer` in the order of `main`,
each with its early return. The transaction is deferred: it takes the
write lock, and its snapshot, with the first migration, after the version was
read, and fails if another process keeps the lock. `Once` are the migrations that
cannot be repeated (a plain `CREATE INDEX`); the mounts' lists go on with ones
that can. `Schema` allows the version to fall back to the end of a
shorter list, which happens when a process with a shorter list had read the
version before a longer one committed. What it never allows is a list without
all the migrations before it, a part of a list, or tables that go.

`TokenStorage`: `GetCached`, `Retrieve`, `RetrieveFile` and `Refill` are `get`,
`SetBegin`, `Store`, `Truncate` and `WriteFile` are `set`. A task whose
token is missing or has expired obtains a new one (`Renew`, external) and sets it.
Tokens are numbered in the order in which they are set. A list of stored tokens
is a set of pairs of scopes and token: `set` drops every entry that the new
scopes cover before it adds its own at the end, so the first entry that `get`
finds to cover what is asked for is the one with the least number. `set_password`
may fail although the keyring answers; with the fallback the list then goes to the
file, and the keyring keeps what it has.

## 3. Runs

All passing runs finish in under three minutes on two cores.

| Run | Question | Result |
|---|---|---|
| `metadata` | Does a failure, crash or replay ever leave the cursor past a change, or past a listing, that is not stored? Does the table catch up with all that the listing and the feed show, and does the thread end when told? | no; yes, under fairness |
| `cache` | Is a returned path there? Is a row `Syncing` only during a download, and `Synced` only with its whole content? Is a full copy never truncated? Does every call return, although a status mutex is held while the connection is waited for? | yes, each under the condition its comment states; the last under fairness |
| `cache_broken` | Is a returned path that of the whole file, when one call fails? | **violated** |
| `sync` | The queue: is no operation overtaken, and is `list` in an order of `pop`, with each priority in one piece? The engine: is every file of the listing tried before the daemon waits for its timer, and does it always come back to the timer? | yes; yes, under fairness |
| `sync_refresh` | Is a file that changes while the daemon runs downloaded? | **violated** |
| `inodes` | Do answers stay true; do mounts conflict? | unless overlapping mounts remove files; not unless mounts overlap |
| `ipc` | The socket: is a serving daemon reachable; can a stale file block a start; can all daemons be refused? The connection: how far can an answer lag; can a response be returned twice; does every request reach the handler; does shutdown end the connection? | yes, and no, until binds overlap; never. By the number of timeouts; no; yes, while the server lives; yes, under fairness |
| `vfs` | Does a handle keep reading what was opened? What can a listing in several replies miss? | yes; files that were deleted, renamed or left out of a reply, and files behind one of these that it was past, no other |
| `vfs_stale` | Is what a `Synced` row shows what is served? | **violated** |
| `handler` | Does a row outlive its account? Is an update lost? Is a request refused although the newest active account has the file? Does a closure that is to write hold its process's mutex? | no; only between the processes, for a row that both had read; not unless the accounts changed after the start; yes |
| `start` | Does the database pass through whole schemas only (`Schema`)? Does an opened one have all tables of the process's list? Can what an earlier process left block a start that is alone? Does the daemon run with the settings last put in place? | yes; yes; no; yes, unless a save was under way or had broken off |
| `tokens` | Does `get` answer with an outdated token? Can what was stored last be retrieved after a restart? | no, and yes, unless a `get` raced a `set`, the keyring went down or refused a list while it held one, or a write of the file broke off |

### Bounds

The bounds are in the cfg files, each named where its constant is declared.
They are the least at which the interesting cases meet:

- `MetadataSync`: pages of two and three changes give a page that is applied in
  part and a second page; a fault and a restart give a failure before or after
  the recovery from a crash. A nested and a malformed file are treated
  differently by the listing and by the feed.
- `ContentCache`: two callers meet at every pair of places in
  `ensure_downloaded`, on one file or on two; one of the files is cloud-native,
  whose download leaves no copy; a fault and a crash. For `cache_broken` one caller and a
  fault are enough. 624,000 states.
- `SyncQueue`: four operations in three priorities and two clock values give
  ties in both comparisons and a queue that is emptied and filled again. The file
  of an operation plays no part in them, so they are all of one (`Subjects`).
- `SyncEngine`: a file, a cloud-native one and a folder, three changes and two
  faults: a listing whose token fails and one of whose downloads fails too, with a
  file that is gone when its turn comes.
- `InodeManager`: two mounts opened four times in all, two files, two removals:
  each mount may be between `SELECT` and `INSERT` when the other runs, and the
  greatest inode may be removed before a restart.
- `IpcSocket`: three daemons and six starts: one may end or be killed while two
  others are at any of `bind`'s calls.
- `IpcConnection`: three requests, so that an answer may lag by two; the number
  of timeouts is bounded by that of requests.
- `CloudSyncFS`: two files on two paths, three changes and a deletion, a listing of
  one entry to a reply, one callback in which inodes fail, two handles and a
  second mount: a row moves from before the offset to behind the other, or to its
  path. Handles and listings meet in rows and inodes only, so the constraint
  `OpenOrList` keeps them apart: listings are taken in the first mount before anything
  is opened, and handles are opened while no listing is under way, with every file
  on the first path. 930,000 states.
- `DaemonHandler`: a task of the daemon and two of the mount, so that a closure
  may wait for its own process and interleave with the other; two files, of
  which one may take the other's path; a second account of the same
  provider. One request, three jobs of the mount and two calls of the account
  tool give a row that is created, read by both processes and deleted, and an
  account that goes while a closure has its row in hand. 753,000 states.
- `DaemonStart`: lists of two, three and four migrations, the first two not
  repeatable, and four starts: two processes race and a third finds what they
  left, or one starts again after a kill. One save, and one edit of the file, meet
  every step of a start. 867,000 states.
- `TokenStorage`: two tasks, a set of scopes and a part of it, three tokens, one
  change of the keyring and one restart: a token is replaced while the other task
  is between reading and refilling, on any backend. 1.3 million states.

`CHECK_DEADLOCK FALSE` is set where a bound lets the model stop although the
program would not (no more changes, operations, starts or requests). The runs of
`ContentCache` check for deadlock; that the engine does not stop is
`RefreshesForever`.

Symmetry is used over the tasks of `TokenStorage`, and the mount's tasks, the files
and the addresses of `DaemonHandler`, whose runs check safety only.

### Pure operators

Assumptions of the `MC` modules, which TLC evaluates before the run, check the
pure operators over bounded inputs: paths of up to three parts, empty and `.` parts
among them, resolve back to what `to_local` was given less those parts, `join`
against `parent` and `file_name`, the names that
providers and states have in paths and rows, URLs (`MCDaemonHandler`); loading
what was saved (`MCDaemonStart`); `scopes_covered_by`, secret files and the
client's storage (`MCTokenStorage`).

### Fairness

- `MetadataSync`: weak fairness of `ThreadStep`: the operating system runs the
  thread, and provider calls return with an answer or an error (`Fail`). Faults are
  bounded, as the code retries for ever: what is claimed is claimed of the time
  after the last of them. `Converges` is conditional on the
  thread staying up, and speaks of what the code ever gets to see (`Owed`): a
  file that has changed since the token, and a root file as the listing had it.
- `ContentCache`: weak fairness of each caller's `Proceed`, not of new calls. Its
  subscript is `pc`, which every such step changes. Strong fairness of `LockConn`:
  the connection's mutex is free again and again, and a thread that waits for it
  is not passed over for ever.
- `SyncEngine`: weak fairness of the task: `interval` ticks, calls return.
- `IpcConnection`: weak fairness of the task's own steps; strong fairness of
  `SeeShutdown` only, since `select!` polls its branches in random order, so a
  `changed()` that is ready again and again is taken in the end. The client
  need not do anything, but a connection that is writing must be read: the
  model's `Wrote` is always possible, a full socket buffer is not modelled.
- `DaemonHandler`, `DaemonStart` and `TokenStorage` state no fairness: their
  properties are about safety.

## 4. Proofs

`tlapm` proves these for every value of the constants that satisfies the named
assumptions (`ConstantsAssumption`, `QueueAssumption`, `SocketAssumption`,
`HandlerAssumption`, `PathsAssumption`), which TLC evaluates for each instance.

| Theorem | States | Invariant |
|---|---|---|
| `MetadataSync_proofs!FeedSafety`, `ListingSafety` | `[]FeedApplied`, `[]ListingStored` | `IInv` |
| `ContentCache_proofs!OkPresent` | `[]OkMeansPresent` | `PresentInv` |
| `ContentCache_proofs!AloneSafety` | `[]SyncedMeansFull`, `FullStaysFull` | `AloneInv` |
| `ContentCache_proofs!SyncingSafety` | `[]SyncingMeansDownloading` | `SyncingInv` |
| `Sync_proofs!OrderSafety` | `[]NoOvertaking` | `QueueInv`, `OrderInv` |
| `Sync_proofs!ListSafety` | `[]ListIsPopOrder` | `QueueInv`, and that the queue is finite |
| `Sync_proofs!ListingSafety` | `[]ListingTried` | `ListingInv` |
| `InodeManager_proofs!RootSafety` | `[]RootIsOne` | `RootInv` |
| `InodeManager_proofs!ConflictSafety` | `[]NoConflict` | `SoleInv` |
| `InodeManager_proofs!AnswerSafety` | `[]AnswersStay` | `SoleInv`, `SharedInv` |
| `Ipc_proofs!RaceSafety` | `[]NotAllFail` | `RaceInv` |
| `Ipc_proofs!SerialSafety`, `StaleSafety` | `[]Reachable`, `[]StaleNeverBlocks` | `SerialInv` |
| `Ipc_proofs!LagSafety`, `OnceSafety` | `[]LagNeedsTimeouts`, `[]EachOnce` | `ConnectionInv` |
| `Ipc_proofs!HandledSafety` | `[]RequestsHandled` | `HandledInv` |
| `CloudSyncFS_proofs!ReadSafety` | `[]ReadsAsOpened` | `HandleInv` |
| `CloudSyncFS_proofs!ListingSafety` | `[]ListingComplete` | `ListingInv` |
| `Daemon_proofs!Refinement` | `MigratesWhole`: `DaemonStart` implements `Schema` | `SchemaInv` |
| `Daemon_proofs!OpenedSafety` | `[]OpenedMeansMigrated` | `OpenedInv` |
| `Daemon_proofs!LoneStartSafety` | `[]LoneStartSucceeds` | `AloneInv` |
| `Daemon_proofs!ConfigSafety` | `[]RunsAsConfigured` | `ConfigInv` |
| `Daemon_proofs!OrphansSafety`, `UpdateSafety` | `[]NoOrphans`, `[]NoLostUpdate` | `HandlerInv` |
| `Daemon_proofs!RefusalSafety` | `RefusedMeansMissing` | `RefusalInv` |
| `TokenStorage_proofs!NoStaleSafety`, `StoreSafety` | `[]NoStaleToken`, `[]StoreIsNewest` | `TokenInv` |

For each component there is a theorem of its type invariant too: `TypeCorrect`, and
`QueueTypes`, `SocketTypes` and `HandlerTypes`. Since they and `RootSafety` hold for
all constants, the runs do not repeat them; the exception is that of
`DaemonHandler`, whose type invariant also says who holds the mutex.

The assumptions on constants are those the code justifies: bounds are numbers;
values that stand for nobody (`Free`, `None`, `Nobody`) are not among the actors;
the tasks of the daemon and of the mount are different ones; every process's list
of migrations begins with those that cannot be repeated, as the lists of
`cloudsync-db` do; a token has scopes; paths are sequences, and the sync root is
given by its components, without `.` or empty names.

Why the strengthenings are needed:

- `FeedApplied` speaks of the stored cursor, but a page is applied before its
  cursor is stored. `IInv` says how far the table is ahead (`Frontier`), that a
  listing being stored is the latest state as of its time (`ListingIsLatest`),
  so that storing it over newer rows does not happen, and that what the listing
  showed is stored or still to be stored (`ListingPending`).
- `OkMeansPresent` needs that a status `Complete` is only set for a file that
  exists, by whichever caller. `SyncingMeansDownloading` needs that only a
  cloud-native file's download ends without a new state in the row. `AloneInv`
  gives, for every file that is not contended, the one caller that may write it
  and the stage its download is in; `SyncedMeansFull` follows from that, and
  so does that nobody truncates a copy that is complete.
- `NoOvertaking` needs that ids are unique over the queue and what the tasks hold,
  and that nothing was popped past an operation that is not queued yet. `ListIsPopOrder` needs no more than distinct ids: then
  the order by which `list` sorts and the one by which the heap pops are the same
  strict order.
- `ListingTried` needs that a file of the listing is `Covered`: tried, queued, or
  being tried. At the tick the queue is empty, so it was tried.
- `NoConflict` needs that the counter of the one mount that is up is above the
  table. `AnswersStay` needs two invariants: that one and that answers are
  below the counter while mounts have not overlapped, and, when they have and
  nothing was removed, that an answer is in the table.
- `Reachable` needs that what `bind` found out about the path stays true up to
  the call that uses it, which is what overlapping binds break.
- `LagNeedsTimeouts` needs a count of responses the client has not read: those
  of the requests it gave up on, and at most one more.
- `ReadsAsOpened` needs that inodes are distinct, which rests on the numbering
  of fresh inodes upwards from the counter (`Allocates`, `RankStrict`), and that
  a copy that exists is never downloaded again.
- `ListingComplete` speaks of a listing that has ended. `ListingInv` says, for
  one under way, that a file that is owed was shown or lies behind the offset
  in the current order of rows. That an insertion, a deletion, a renaming or a
  child that is left out moves no file that is still owed from behind the offset
  to before it is a matter of counting the rows before it, for which there are
  lemmas of their own.
- A step of `Schema` is a commit. `SchemaInv` says what a process holds before it:
  while it waits for the lock, the rest of its list behind migrations that have
  all been applied, and with the lock a piece of the list that nobody has applied
  in the meantime. `LoneStartSucceeds` needs that the version, which may fall back,
  never falls below what cannot be repeated (`AloneInv`). `OpenedMeansMigrated` is
  inductive on top of `SchemaInv` (`OpenedInv`): what a process commits is the rest of
  its list behind tables that are there, and tables never go.
- `RunsAsConfigured` needs that a file that no save is writing or has broken
  loads as intended, and that a daemon keeps what it loaded (`ConfigInv`).
- A closure writes back a row that it read some time ago. `NoOrphans` needs that
  ids of rows are not given twice and that a copy in a task's hands has the
  account and file of its row if that is still there (`OrphansInv`);
  `NoLostUpdate` that a row that is not `mixed` is in one task's hands at most,
  with the column that the task does not change as it is meant (`UpdateInv`). Both
  rest on the mutex: only its holder is about to write (`HandlerTypeOK`).
- `RefusedMeansMissing` needs that the account of a request at work is the one
  that the snapshot has first for its provider (`AnsweringInv`), and that this is the
  newest active one if there is just one of its time, as the snapshot is
  sorted by times (`AccountsInv`). It also needs that `resolve_local` undoes
  `to_local` for paths without empty and `.` parts (the lemma `ResolveUndoesToLocal`). As
  `CloudPath` is recursive over the names of a path, this takes an induction; it is
  done by the least length at which the result would be wrong (`LeastElement`).
- `NoStaleToken` and `StoreIsNewest` hold each other up, since `get` fills the
  cache from the store and `set` stores what is in the cache. `TokenInv` says that
  both are newest, as long as nothing has raced, failed or broken, and what is
  in the hands of a task on its way from one to the other; the exceptions are the
  cache that is still empty and the file that is being written.

### Only model-checked

Liveness (`Converges`, `StopEnds`, `CallsReturn`, `RefreshesForever`,
`ShutdownEnds`), which is out of the prover's reach, and the assumptions of the
`MC` modules on pure operators, but for the paths.

## 5. Mutants

Every property of a passing run has a mutant: a definition with a plausible bug
(named `Mutant of ...` in the module) that TLC must refute under the same cfg. For
example `FailSkips` goes on after a change that could not be stored,
`CheckDoneTooEarly` trusts a status before the file is there, `GreaterLifo`
compares ages the wrong way round, `OpenCachedIfCurrent` downloads an outdated
copy again under handles that are open on it, `RunMigrationAlone` leaves the
transaction out, `lookup_account_by_db_name` compares a path's slug with the name
that the database has for a provider, `SetBeginSwapped` drops the tokens that do
*not* cover the new one's scopes.

## 6. Findings

Three runs are refuted by TLC. `PROJECT.json` quotes the lines of the repository
that they contradict:

- A copy is never refreshed, so a changed file is served in its old version, with
  the new metadata and the state `Synced` (`vfs_stale`).
- A download that breaks off leaves what it has written at the cached path, and the
  next call of `ensure_downloaded`, which "ensures the file is downloaded locally"
  (`content_cache.rs:77`), returns it as cached (`cache_broken`).
- The daemon never downloads what changes after its initial listing: it drops the
  cursor that `refresh_sync` returns and passes `None` at every tick
  (`main.rs:194`), where `engine.rs:123` speaks of what has changed "since the last
  sync" (`sync_refresh`).

Three more promises are stated in the modules but have no run; each is refuted
when it is added to the cfg that is named:

- The `initial_sync` of a restart, or of a retry, stores a fresh token over the
  cursor: changes between the two are skipped, and rows of files that were
  deleted meanwhile stay. `sync_cursors.rs:3-4` says that incremental sync
  survives restarts (`CursorSkipsNothing`, `MCMetadataSync.cfg`). It is what `Owed`
  leaves out of `Converges`.
- Two callers of `ensure_downloaded` may both find `InProgress` and download one
  file at the same time, the second truncating what the first has completed, and a
  caller is given the path of a file that another is still writing.
  `content_cache.rs:34` says that locking "prevents concurrent duplicate downloads",
  line 80 that a second caller "waits for completion" (`NoDuplicateDownloads`,
  `OkMeansDownloaded`, `MCContentCache.cfg`). The properties of `cache` on the
  content of a copy are about files that are not `contended`. FUSE
  callbacks run one at a time, so one mount has a single caller.
- `SyncQueue::remove` of an unknown id empties the queue: it drains the heap and
  returns before it puts the rest back (`queue.rs:105-111`), where `queue.rs:97-100`
  speaks of the one operation and an error (`NothingLost`, `MCSync.cfg`). `remove`
  has no caller outside of the tests.

The conditions of the other properties are needed: without them TLC refutes the
property. Nothing in the repository promises more, but a user may well expect it:

- A change between the listing and the start token is not seen until the file
  changes again.
- A cloud-native file is never written; its row stays `Syncing`.
- Mounts that overlap may conflict in `get_or_insert_inode`, and when they also
  remove files an inode may come to name another file. A removed file's inode
  may be given out again after a restart.
- Daemons whose binds overlap may both serve, one of them unreachable.
- After a timeout a client returns the response to an earlier request.
- After a failed `accept` the watch channel has no sender, and open connections
  lose parts of requests.
- A listing misses a file that is renamed while it goes on, or whose inode cannot be
  had in one of the replies; and a file behind a row that it was past, when
  that row is deleted, renamed to a place behind the file, or left out of a reply.
- The daemon and a mount may lose each other's update of a row: each writes back
  all columns of the row that it read, under the mutex of its own process only.
- The daemon knows the accounts of its start. An account that is added or
  deactivated later is answered as before, and if they cannot be read at start,
  every path is refused.
- Of several active accounts of one provider a path names the newest; of several of
  the same second any of them.
- A file whose name is `.` has a cloud path that no local path leads to.
- Processes with lists of migrations of different length may leave the version
  below the tables that are there. What a longer list then repeats is repeatable.
- A torn configuration may parse: a daemon that starts within a save, or after
  one that broke off, may run with some fields of the new settings, a number that
  lacks its last digits, and defaults for the rest.
- A `get` that races a `set` puts the old list back in the cache, and the next
  `set` stores it. A write of the token file that breaks off loses every token. A
  keyring that comes back, or that has refused a list, hides newer tokens of the file
  behind older ones of its own.
- A `set` for a narrower set of scopes drops a token for a wider one.

Seen while reading, and of no run:

- `create_directories` is never called: a first start without the data directory
  fails at the database.
- `--config` is parsed and ignored.
- The action channel is `None`: pause, resume and forced syncs answer `Ok` and do
  nothing. A slug that is not known in `Pause` and `Resume` means all providers.
- `GoogleDriveClient::new` gives the builder no custom storage: its tokens are in
  the file of yup-oauth2, never in `SecureTokenStorage`.
- `build_web_url` gives folders the URL of a file viewer.
- `CloudPath` takes a backslash for a separator: a local name with one in it is
  looked up at a path that leads back to another local path (`Backslash` of
  `MCDaemonHandler`).
- A negative modification time is cast to `u64` (`filesystem.rs:111`).

## 7. Not modelled, and assumptions

- The root folder fits in one page of `files.list`; file names are distinct and
  do not change in `SyncEngine` (a local path is made of the name).
- `CloudSyncFS` has one directory, the root: `list_folder` and the change feed
  give every item the path `/name`. Of its callbacks' database calls those fail
  that read or insert an inode; one that fails as a whole replies an error and
  changes nothing.
- `execute_operations` is called without a limit, as `main.rs` does.
- Any error of the probing `connect` is taken for a stale socket file, a full
  backlog or a missing permission too (`server.rs:45`): in `IpcSocket` a live
  daemon always accepts. One failing `accept` ends the server (`server.rs:89`);
  of that only what it does to open connections is in `IpcConnection`. Writes
  have no timeout (`server.rs:194`), and buffers are not bounded here.
- `open` downloads within its callback and so holds up every other one
  (`filesystem.rs:350`); `CloudSyncFS` shows what may change meanwhile, and has
  no notion of how long it takes.
- Two files of one name have one local path in `SyncEngine` (`engine.rs:290`), and
  the later download overwrites the earlier; its model has distinct names. In
  `DaemonHandler` two files may have one path.
- `list_folder` asks for one page and drops the rest (`provider.rs:142`).
- `upload`, `delete` and `move_item` only return errors; `get_metadata` and its
  like have no callers.
- What yup-oauth2, the keyring, SQLite and FUSE do is external: taken from how the
  code uses them. Of SQLite: single statements are atomic, a deferred transaction
  takes its snapshot with its first statement and cannot write if another process
  has written since; a busy timeout that expires is an error of the call.
- Error types, logging, the command line, `TransferProgress`, `ShareOptions`,
  `FileVersion`, the opening of a browser, and the examples, which are
  straight-line uses of what is modelled.

## 8. Plan

Order: what carries most of the program's behaviour first.

1. *(done)* `FilesTable`, `MetadataSync`, `ContentCache`, `QueueOps`,
   `SyncQueue`, `SyncEngine`, `InodeManager`, `IpcSocket`, `IpcConnection`,
   `CloudSyncFS`, with their runs and the theorems above; then `PathResolver`,
   `Tables`, `GDrive`, `DaemonHandler`, `Configuration`, `OAuth`, `Schema`,
   `DaemonStart`, `TokenStorage` with theirs.
2. *(done)* The proofs of section 4: every invariant and every action property of a
   passing run is a theorem.
3. Further abstract specifications: a table that mirrors a log (refined by
   `MetadataSync` from its start token on); a priority queue (refined by
   `SyncQueue` as long as no `remove` misses); a cached file that is absent, being
   fetched or present (refined by `ContentCache` for files that are not contended,
   and by `CloudSyncFS`).
4. Shared names in `SyncEngine`, a listing of several pages, `max_operations`.
