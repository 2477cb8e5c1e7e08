---------------------------- MODULE DaemonHandler ---------------------------
(***************************************************************************)
(* The daemon's request handler (handler.rs of cloudsync-daemon) on the    *)
(* database it shares with other processes.  Tasks of the daemon answer    *)
(* requests of shell extensions; tasks of a mount's process store the      *)
(* metadata and the states of files; an account tool adds, changes and     *)
(* deletes accounts.  Within a process Database::with_conn runs a closure  *)
(* under the connection's mutex; between processes only single statements  *)
(* are atomic, so a row that one closure has read may change, or go,       *)
(* before it writes all its columns back.                                  *)
(***************************************************************************)
EXTENDS Tables, GDrive

CONSTANTS DaemonTasks, MountTasks,
          MountAccount,     \* the account of the mount
          AccountIds,       \* ids that AccountId::new may give, MountAccount too
          Providers, Emails,
          DriveChanges,     \* what the change feed of the mount's account may hold
          SyncRoot,
          Locals,           \* local paths that requests name
          ActionTx,         \* the handler has a channel for actions; main gives it none
          MaxRequests, MaxJobs, MaxAdmin    \* bounds: requests, jobs of the
                                            \* mount, calls of the account tool

Tasks == DaemonTasks \cup MountTasks
Free == "free"

ASSUME HandlerAssumption ==
    /\ DaemonTasks \cap MountTasks = {}
    /\ Free \notin Tasks
    /\ MountAccount \in AccountIds
    /\ Providers \subseteq ProviderId
    /\ ActionTx \in BOOLEAN
    /\ {MaxRequests, MaxJobs, MaxAdmin} \subseteq Nat

VARIABLES
    db,         \* the tables
    snapshot,   \* provider_accounts: pairs of slug and account, read at start
    mutex,      \* per process, the task that holds the connection, or Free
    stage, job, \* where each task is, and its request or job
    account,    \* the account that resolve_and_lookup found
    copy,       \* the row that a task has read, as it will write it
    reply,      \* per task of the daemon, its last answer
    sent,       \* the actions that have gone to the sync loop
    requests, jobs, admin,
    \* history variables, read by properties only:
    meant,      \* per row, the path and the state that were last written on purpose
    mixed,      \* rows that closures of both processes had read at a time
    stale       \* the accounts have changed since the daemon read them, or could
                \* not be read

counts == <<requests, jobs, admin>>
hist == <<meant, mixed, stale>>
handlerVars == <<db, snapshot, mutex, stage, job, account, copy, reply, sent, counts, hist>>

Process(t) == IF t \in DaemonTasks THEN "daemon" ELSE "mount"
NoCopy == [id |-> 0]
Idle == [op |-> "none", todo |-> <<>>]
States == {"CloudOnly", "Pending", "Syncing", "Synced"}
Errors == {"outside sync root", "unknown provider", "file not found", "database error"}

DaemonAction ==
    [kind : {"Force"}, account : AccountIds,
     path : {resolve_local(SyncRoot, p).cloud_path : p \in {q \in Locals : resolve_local(SyncRoot, q).inside}}]
        \cup [kind : {"Pause", "Resume"}, provider : ProviderId \cup {"None"}]

\* main: the active accounts, with the slugs of their providers, in an order that
\* list_accounts may return.
ProviderAccounts(tables) ==
    {[i \in DOMAIN ids |-> [slug |-> as_str(FromRow(tables.accounts[ids[i]].provider)),
                            account |-> ids[i]]] : ids \in list_accounts(tables)}

HandlerInit ==
    /\ \E p \in Providers, e \in Emails :
        db = create_account(EmptyTables, MountAccount, NewAccount(p, e, 0))
    /\ snapshot \in ProviderAccounts(db)
    /\ mutex = [p \in {"daemon", "mount"} |-> Free]
    /\ stage = [t \in Tasks |-> "idle"]
    /\ job = [t \in Tasks |-> Idle]
    /\ account = [t \in DaemonTasks |-> MountAccount]
    /\ copy = [t \in Tasks |-> NoCopy]
    /\ reply = [t \in DaemonTasks |-> "none"]
    /\ sent = {}
    /\ requests = 0 /\ jobs = 0 /\ admin = 0
    /\ meant = <<>> /\ mixed = {} /\ stale = FALSE

Enter(t, l) == stage' = [stage EXCEPT ![t] = l]

-----------------------------------------------------------------------------
(* Closures of with_conn: a SELECT, and an INSERT, UPDATE or DELETE.       *)

\* Mutant of Locked: the connection is not kept for the whole closure.
Unlocked(t) == mutex' = mutex

\* with_conn: the mutex is taken and kept while the closure has more to do.
Locked(t) == mutex[Process(t)] = Free /\ mutex' = [mutex EXCEPT ![Process(t)] = t]

\* The closure has read row id and goes on to write it as row.
ReadToWrite(t, id, row) ==
    /\ Locked(t)
    /\ copy' = [copy EXCEPT ![t] = [id |-> id, row |-> row]]
    /\ mixed' = mixed \cup {r \in {id} : \E u \in Tasks : /\ Process(u) # Process(t)
                                                          /\ copy[u].id = r}
    /\ Enter(t, "write")

\* The closure ends without writing: the mutex must only be free for the SELECT.
ReadOnly(t) == mutex[Process(t)] = Free /\ UNCHANGED <<mutex, copy, mixed>>

\* The closure ends after its last statement.
Released(t) ==
    /\ mutex' = [mutex EXCEPT ![Process(t)] = IF @ = t THEN Free ELSE @]
    /\ copy' = [copy EXCEPT ![t] = NoCopy]

\* The tables after a statement, and what is meant of the rows that are left.
Stored(after, id, path, state) ==
    /\ db' = after
    /\ meant' = [r \in DOMAIN after.files |->
                    IF r = id THEN [path |-> path, state |-> state] ELSE meant[r]]

-----------------------------------------------------------------------------
(* Requests.                                                               *)

FileRequests == {"GetStatus", "SetPinned", "Unpin", "SetCloudOnly", "ForceSync"}

Request(t, op, todo) ==
    /\ stage[t] = "idle"
    /\ requests < MaxRequests
    /\ requests' = requests + 1
    /\ job' = [job EXCEPT ![t] = [op |-> op, todo |-> todo]]
    /\ reply' = [reply EXCEPT ![t] = "none"]
    /\ Enter(t, "resolve")
    /\ UNCHANGED <<db, snapshot, mutex, account, copy, sent, jobs, admin, hist>>

send_action(action) == sent' = IF ActionTx THEN sent \cup {action} ELSE sent

\* PauseSync and ResumeSync; a provider that is not known stands for all of them.
PauseOrResume(t, kind, slug) ==
    /\ stage[t] = "idle"
    /\ requests < MaxRequests
    /\ requests' = requests + 1
    /\ send_action([kind |-> kind, provider |-> from_slug(slug)])
    /\ reply' = [reply EXCEPT ![t] = "Ok"]
    /\ UNCHANGED <<db, snapshot, mutex, stage, job, account, copy, jobs, admin, hist>>

\* IpcClient::ping: the batch of no paths is answered at once.
Ping(t) ==
    /\ stage[t] = "idle"
    /\ requests < MaxRequests
    /\ requests' = requests + 1
    /\ reply' = [reply EXCEPT ![t] = "Ok"]
    /\ UNCHANGED <<db, snapshot, mutex, stage, job, account, copy, sent, jobs, admin, hist>>

\* The answer for the path at hand.  In a batch an error becomes the state Error,
\* and the next path follows.
Answer(t, answer) ==
    LET op == job[t].op
        shown == IF op = "GetStatusBatch" /\ answer \in Errors THEN "Error" ELSE answer
        rest == Tail(job[t].todo)
    IN  /\ reply' = [reply EXCEPT ![t] = shown]
        /\ job' = [job EXCEPT ![t] = IF rest = <<>> THEN Idle ELSE [op |-> op, todo |-> rest]]
        /\ Enter(t, IF rest = <<>> THEN "idle" ELSE "resolve")

\* The account of the first pair of the snapshot at one of these places, if any.
FirstAt(places) == {snapshot[i].account : i \in {k \in places : \A j \in places : k <= j}}

\* Mutant of lookup_account: slugs are compared with the names in the database.
lookup_account_by_db_name(slug) ==
    FirstAt({i \in DOMAIN snapshot : <<DbName(from_slug(snapshot[i].slug))>> = slug})

\* lookup_account: the account of the first pair with this slug; one or none.
lookup_account(slug) == FirstAt({i \in DOMAIN snapshot : snapshot[i].slug = slug})

\* resolve_and_lookup: the account and the cloud path, or an error.
resolve_and_lookup(local) ==
    LET r == resolve_local(SyncRoot, local) IN
    IF ~ r.inside THEN [error |-> "outside sync root"]
    ELSE IF lookup_account(r.provider_slug) = {} THEN [error |-> "unknown provider"]
    ELSE [error |-> "none", account |-> CHOOSE a \in lookup_account(r.provider_slug) : TRUE,
          cloud_path |-> r.cloud_path]

\* The request goes on to the database, or is refused.
Resolve(t) ==
    LET r == resolve_and_lookup(Head(job[t].todo)) IN
    /\ stage[t] = "resolve" /\ job[t].op # "ForceSync"
    /\ \/ r.error # "none" /\ Answer(t, r.error) /\ UNCHANGED account
       \/ /\ r.error = "none"
          /\ account' = [account EXCEPT ![t] = r.account]
          /\ Enter(t, "select")
          /\ UNCHANGED <<job, reply>>
    /\ UNCHANGED <<db, snapshot, mutex, copy, sent, counts, hist>>

\* ForceSync needs nothing else.
ForceSync(t) ==
    LET r == resolve_and_lookup(Head(job[t].todo)) IN
    /\ stage[t] = "resolve" /\ job[t].op = "ForceSync"
    /\ \/ r.error # "none" /\ Answer(t, r.error) /\ UNCHANGED sent
       \/ /\ r.error = "none"
          /\ send_action([kind |-> "Force", account |-> r.account, path |-> r.cloud_path])
          /\ Answer(t, "Ok")
    /\ UNCHANGED <<db, snapshot, mutex, account, copy, counts, hist>>

\* A file that was pinned is to be synced at once.
Forced(t) ==
    send_action([kind |-> "Force", account |-> account[t],
                 path |-> resolve_local(SyncRoot, Head(job[t].todo)).cloud_path])

\* The SELECT of a request: get_file_by_cloud_path.
Select(t) ==
    LET ids == RowsAtPath(db, account[t], resolve_local(SyncRoot, Head(job[t].todo)).cloud_path)
        op == job[t].op
        Row(r) == FileOfRow(db.files[r])
    IN
    /\ stage[t] = "select"
    /\ UNCHANGED account
    /\ \/ /\ ids = {}
          /\ ReadOnly(t) /\ Answer(t, "file not found")
          /\ UNCHANGED sent
       \/ /\ op \in {"GetStatus", "GetStatusBatch"}
          /\ \E r \in ids : ReadOnly(t) /\ Answer(t, Row(r).state)
          /\ UNCHANGED sent
       \/ \* pinning changes only what is CloudOnly
          /\ op = "SetPinned"
          /\ \E r \in ids : Row(r).state # "CloudOnly" /\ ReadOnly(t) /\ Answer(t, "Ok")
          /\ Forced(t)
       \/ /\ op \in {"SetPinned", "Unpin", "SetCloudOnly"}
          /\ \E r \in ids :
               /\ op = "SetPinned" => Row(r).state = "CloudOnly"
               /\ ReadToWrite(t, r, [Row(r) EXCEPT !.state =
                                        IF op = "SetPinned" THEN "Pending" ELSE "CloudOnly"])
          /\ UNCHANGED <<job, reply, sent>>
       \/ ReadOnly(t) /\ Answer(t, "database error") /\ UNCHANGED sent
    /\ UNCHANGED <<db, snapshot, counts, meant, stale>>

\* The UPDATE of a request; that it finds no row is not looked at.
Update(t) ==
    /\ t \in DaemonTasks /\ stage[t] = "write"
    /\ UNCHANGED account
    /\ \/ /\ LET c == copy[t] IN
               Stored(update_file(db, c.id, c.row), c.id,
                      IF c.id \in DOMAIN meant THEN meant[c.id].path ELSE <<>>, c.row.state)
          /\ Answer(t, "Ok")
          /\ IF job[t].op = "SetPinned" THEN Forced(t) ELSE UNCHANGED sent
       \/ Answer(t, "database error") /\ UNCHANGED <<db, meant, sent>>
    /\ Released(t)
    /\ UNCHANGED <<snapshot, counts, mixed, stale>>

-----------------------------------------------------------------------------
(* The mount's process.                                                    *)

\* apply_change: what a change of the feed is to do with its row; a change without an
\* item does nothing.
ApplyChange ==
    LET changes == UNION {ToChange(c) : c \in DriveChanges}
    IN  {[op |-> "delete", file |-> c.file_id] : c \in {d \in changes : d.deleted}}
            \cup UNION {{[op |-> "upsert", file |-> i.id, path |-> i.path] : i \in c.item}
                         : c \in changes}

\* A change of the feed or the state of a download is to be stored.
Job(t, j) ==
    /\ stage[t] = "idle"
    /\ jobs < MaxJobs
    /\ jobs' = jobs + 1
    /\ job' = [job EXCEPT ![t] = j]
    /\ Enter(t, "select")
    /\ UNCHANGED <<db, snapshot, mutex, account, copy, sent, reply, requests, admin, hist>>

JobEnds(t) == Enter(t, "idle") /\ job' = [job EXCEPT ![t] = Idle]

\* upsert_cloud_item, the deletion of apply_change, and update_file_state: the
\* SELECT by provider id.  Without a row only an upsert goes on, to insert one.
MountSelect(t) ==
    LET j == job[t]
        ids == RowsOfFile(db, MountAccount, j.file)
        Row(r) == FileOfRow(db.files[r])
    IN
    /\ t \in MountTasks /\ stage[t] = "select"
    /\ \/ /\ j.op = "upsert"
          /\ \/ \E r \in ids : ReadToWrite(t, r, [Row(r) EXCEPT !.path = j.path])
             \/ ids = {} /\ ReadToWrite(t, 0, NewFile(MountAccount, j.file, j.path))
          /\ UNCHANGED job
       \/ /\ j.op = "delete"
          /\ \E r \in ids : ReadToWrite(t, r, Row(r))
          /\ UNCHANGED job
       \/ /\ j.op = "state"
          /\ \E r \in ids : ReadToWrite(t, r, [Row(r) EXCEPT !.state = j.state])
          /\ UNCHANGED job
       \/ ids = {} /\ j.op # "upsert" /\ ReadOnly(t) /\ JobEnds(t)
    /\ UNCHANGED <<db, snapshot, account, reply, sent, counts, meant, stale>>

\* ... and the INSERT, unless a constraint refuses it, the UPDATE or the DELETE, or
\* a statement that fails.
MountWrite(t) ==
    LET j == job[t]
        c == copy[t]
        was == IF c.id \in DOMAIN meant THEN meant[c.id] ELSE [path |-> <<>>, state |-> "none"]
    IN
    /\ t \in MountTasks /\ stage[t] = "write"
    /\ \/ /\ j.op = "upsert" /\ c.id = 0 /\ ~ FileConflicts(db, c.row)
          /\ Stored(create_file(db, c.row), db.next, c.row.path, c.row.state)
       \/ /\ j.op = "upsert" /\ c.id # 0
          /\ Stored(update_file(db, c.id, c.row), c.id, j.path, was.state)
       \/ /\ j.op = "state"
          /\ Stored(update_file(db, c.id, c.row), c.id, was.path, j.state)
       \/ /\ j.op = "delete"
          /\ Stored(delete_file(db, c.id), 0, <<>>, "none")
       \/ UNCHANGED <<db, meant>>
    /\ Released(t)
    /\ JobEnds(t)
    /\ UNCHANGED <<snapshot, account, reply, sent, counts, mixed, stale>>

\* The cursor of the mount's account, one statement; a foreign key may refuse it.
SaveCursor ==
    /\ jobs < MaxJobs
    /\ jobs' = jobs + 1
    /\ mutex["mount"] = Free
    /\ ~ CursorConflicts(db, MountAccount)
    /\ db' = upsert_cursor(db, MountAccount, jobs')
    /\ UNCHANGED <<snapshot, mutex, stage, job, account, copy, reply, sent, requests, admin, hist>>

-----------------------------------------------------------------------------
(* The account tool, and starts of the daemon.                             *)

Admin(after) ==
    /\ admin < MaxAdmin
    /\ admin' = admin + 1
    /\ db' = after
    /\ meant' = [r \in DOMAIN after.files |-> meant[r]]
    /\ UNCHANGED <<snapshot, mutex, stage, job, account, copy, reply, sent, requests, jobs,
                   mixed>>

\* created_at is stored in whole seconds of a clock that may be set back: it may be
\* that of another account, or before it.
AddAccount(id, p, e) ==
    \E now \in 0..admin + 1 :
        LET a == NewAccount(p, e, now) IN
        /\ ~ HasAccount(db, id) /\ id # MountAccount    \* a UUID is not given twice
        /\ ~ AccountConflicts(db, a)
        /\ Admin(create_account(db, id, a))
        /\ stale' = TRUE

SetActive(id, active) ==
    /\ HasAccount(db, id) /\ db.accounts[id].is_active # active
    /\ Admin(update_account(db, id, active))
    /\ stale' = TRUE

RemoveAccount(id) ==
    /\ HasAccount(db, id)
    /\ Admin(delete_account(db, id))
    /\ stale' = TRUE

\* delete_files_by_account and delete_cursor
Reset(id) ==
    /\ HasAccount(db, id)
    /\ \/ Admin(delete_files_by_account(db, id))
       \/ id \in DOMAIN db.cursors /\ Admin(delete_cursor(db, id))
    /\ UNCHANGED stale

\* The daemon is killed anywhere and started again: it reads the accounts, or goes
\* on with none (unwrap_or_default) if that fails.
RestartDaemon(ok) ==
    /\ admin < MaxAdmin
    /\ admin' = admin + 1
    /\ snapshot' \in IF ok THEN ProviderAccounts(db) ELSE {<<>>}
    /\ stale' = ~ ok
    /\ mutex' = [mutex EXCEPT !["daemon"] = Free]
    /\ stage' = [t \in Tasks |-> IF t \in DaemonTasks THEN "idle" ELSE stage[t]]
    /\ job' = [t \in Tasks |-> IF t \in DaemonTasks THEN Idle ELSE job[t]]
    /\ copy' = [t \in Tasks |-> IF t \in DaemonTasks THEN NoCopy ELSE copy[t]]
    /\ reply' = [t \in DaemonTasks |-> "none"]
    /\ UNCHANGED <<db, account, sent, requests, jobs, meant, mixed>>

HandlerNext ==
    \/ \E t \in DaemonTasks :
        \/ \E op \in FileRequests, p \in Locals : Request(t, op, <<p>>)
        \/ \E p, q \in Locals : Request(t, "GetStatusBatch", <<p, q>>)
        \/ \E kind \in {"Pause", "Resume"}, slug \in {<<"gdrive">>, <<"unknown">>} :
            PauseOrResume(t, kind, slug)
        \/ Ping(t)
        \/ Resolve(t) \/ ForceSync(t) \/ Select(t) \/ Update(t)
    \/ \E t \in MountTasks :
        \/ \E j \in ApplyChange : Job(t, j)
        \/ \E r \in DOMAIN db.files, s \in {"Syncing", "Synced"} :
            Job(t, [op |-> "state", file |-> db.files[r].file, state |-> s])
        \/ MountSelect(t) \/ MountWrite(t)
    \/ SaveCursor
    \/ \E id \in AccountIds :
        \/ \E p \in Providers, e \in Emails : AddAccount(id, p, e)
        \/ \E active \in BOOLEAN : SetActive(id, active)
        \/ RemoveAccount(id)
        \/ Reset(id)
    \/ \E ok \in BOOLEAN : RestartDaemon(ok)

HandlerSpec == HandlerInit /\ [][HandlerNext]_handlerVars

-----------------------------------------------------------------------------
(* Properties.                                                             *)

\* The files and paths of the feed.
FileIds == {j.file : j \in ApplyChange}
Paths == {j.path : j \in {k \in ApplyChange : k.op = "upsert"}}

\* The sync root and paths are sequences, the sync root of its components.
ASSUME PathsAssumption ==
    /\ \A path \in Paths : path \in Seq(Range(path))
    /\ SyncRoot \in Seq(Range(SyncRoot))
    /\ \A i \in DOMAIN SyncRoot : SyncRoot[i] \notin Ignored

\* The rows and the copies that are made of them.
FilesIn(states) == [account : AccountIds, file : FileIds, path : Paths, state : states]

TablesOK ==
    /\ DOMAIN db = {"accounts", "files", "cursors", "next"}
    /\ DOMAIN db.accounts \subseteq AccountIds
    /\ db.next \in Nat \ {0} /\ DOMAIN db.files \subseteq 1..(db.next - 1)
    /\ db.files \in [DOMAIN db.files -> FilesIn({StateName(s) : s \in States})]
    \* UNIQUE(account_id, provider_file_id)
    /\ \A r, q \in DOMAIN db.files :
        db.files[r].file = db.files[q].file /\ db.files[r].account = db.files[q].account
            => r = q

\* A closure that has read a row and will write it holds its process's connection.
LocksOK ==
    /\ stage \in [Tasks -> {"idle", "resolve", "select", "write"}]
    /\ mutex \in [{"daemon", "mount"} -> Tasks \cup {Free}]
    /\ \A t \in Tasks : stage[t] = "write" <=> mutex[Process(t)] = t

AnswersOK ==
    /\ reply \in [DaemonTasks -> States \cup Errors \cup {"none", "Ok", "Error"}]
    /\ sent \subseteq DaemonAction

HandlerTypeOK == TablesOK /\ LocksOK /\ AnswersOK

\* No file and no cursor belongs to an account that has been deleted, also when the
\* account goes while the sync thread is between its SELECT and its INSERT or a
\* request between its SELECT and its UPDATE.
NoOrphans ==
    /\ \A r \in DOMAIN db.files : HasAccount(db, db.files[r].account)
    /\ \A a \in DOMAIN db.cursors : HasAccount(db, a)

\* update_file writes every column back.  Still a row has the path that was last
\* stored for it and the state that was last set, by whichever closure of the two
\* processes, unless one of each process had read it at the same time: the mutex of
\* with_conn keeps the closures of one process apart.
NoLostUpdate ==
    \A r \in DOMAIN db.files \ mixed : /\ db.files[r].path = meant[r].path
                                       /\ FileOfRow(db.files[r]).state = meant[r].state

\* The local path of a row of the one newest active account of its provider: of two of
\* the same time list_accounts may name either first.
Names(local, r) ==
    LET a == db.files[r].account IN
    /\ HasAccount(db, a) /\ db.accounts[a].is_active
    /\ \A b \in DOMAIN db.accounts \ {a} :
        db.accounts[b].provider = db.accounts[a].provider /\ db.accounts[b].is_active
            => db.accounts[b].created_at < db.accounts[a].created_at
    /\ Proper(db.files[r].path)
    /\ components(local)
        = to_local(SyncRoot, as_str(FromRow(db.accounts[a].provider)), db.files[r].path)

\* A request is refused as outside of the sync root, of an unknown provider or not
\* found only if no row of the newest active account of that provider has its path,
\* unless the accounts have changed since the daemon read them.  A file by the name of
\* "." or none has no local path.
RefusedMeansMissing ==
    [][\A t \in DaemonTasks :
        (reply'[t] \in Errors \ {"database error"} /\ stage[t] # stage'[t] /\ ~ stale)
            => ~ \E r \in DOMAIN db.files : Names(Head(job[t].todo), r)]_handlerVars

-----------------------------------------------------------------------------
(***************************************************************************)
(* Inductive invariants (proved in Daemon_proofs).                         *)
(***************************************************************************)

\* A row goes only with its account, and a closure that has read it will write it back
\* under the same account and file; ids of rows are not given twice.
OrphansInv ==
    /\ NoOrphans
    /\ \A t \in Tasks :
        /\ stage[t] # "write" => copy[t].id = 0
        /\ stage[t] = "write" =>
            /\ copy[t].row \in FilesIn(States)
            /\ copy[t].id \in 0..(db.next - 1)
            /\ copy[t].id \in DOMAIN db.files =>
                /\ db.files[copy[t].id].account = copy[t].row.account
                /\ db.files[copy[t].id].file = copy[t].row.file

\* What a task is to do: the paths of a request, of which the first is below the sync
\* root once it has been resolved, or a job of the mount.
JobsInv ==
    /\ DOMAIN job = Tasks /\ DOMAIN copy = Tasks
    /\ account \in [DaemonTasks -> AccountIds]
    /\ \A i \in DOMAIN snapshot : snapshot[i].account \in AccountIds
    /\ \A t \in DaemonTasks : stage[t] # "idle" =>
        /\ job[t].todo \in Seq(Locals) \ {<<>>}
        /\ stage[t] # "resolve" => resolve_local(SyncRoot, Head(job[t].todo)).inside
    /\ \A t \in MountTasks :
        /\ stage[t] # "resolve"
        /\ stage[t] # "idle" => /\ job[t].op \in {"upsert", "delete", "state"}
                                /\ job[t].file \in FileIds
                                /\ job[t].op = "upsert" => job[t].path \in Paths
                                /\ job[t].op = "state" => job[t].state \in States

\* A row that has not been mixed has been read by one closure at most, which will write
\* back what is meant of it in the column that it does not change.
UpdateInv ==
    /\ meant \in [DOMAIN db.files -> [path : Paths, state : States]]
    /\ NoLostUpdate
    /\ \A t, u \in Tasks : copy[t].id = copy[u].id /\ copy[t].id \notin mixed \cup {0} => t = u
    /\ \A t \in Tasks : (stage[t] = "write" /\ copy[t].id \in DOMAIN db.files \ mixed) =>
        /\ t \in DaemonTasks \/ job[t].op = "state" => copy[t].row.path = meant[copy[t].id].path
        /\ t \in MountTasks /\ job[t].op = "state" => copy[t].row.state = job[t].state
        /\ t \in MountTasks /\ job[t].op = "upsert" =>
            /\ copy[t].row.path = job[t].path
            /\ copy[t].row.state = meant[copy[t].id].state

HandlerInv == HandlerTypeOK /\ OrphansInv /\ JobsInv /\ UpdateInv

\* Unless the accounts have changed since, the daemon knows those that are active, the
\* newest first.
AccountsInv ==
    /\ admin \in Nat
    /\ IsFiniteSet(DOMAIN db.accounts)
    /\ \A a \in DOMAIN db.accounts :
        db.accounts[a] \in [provider : {DbName(p) : p \in ProviderId}, email : Emails,
                            is_active : BOOLEAN, created_at : 0..admin]
    /\ ~ stale => snapshot \in ProviderAccounts(db)

\* A request at work has not been refused.  Only a batch has several paths; the account
\* of a path that is looked for is the one that the snapshot has for its provider.
AnsweringInv ==
    \A t \in DaemonTasks : stage[t] # "idle" =>
        /\ reply[t] \notin Errors
        /\ job[t].op # "GetStatusBatch" => Tail(job[t].todo) = <<>>
        /\ stage[t] # "resolve" =>
            account[t] \in lookup_account(resolve_local(SyncRoot, Head(job[t].todo)).provider_slug)

RefusalInv == HandlerInv /\ AccountsInv /\ AnsweringInv
=============================================================================
