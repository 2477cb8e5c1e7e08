----------------------------- MODULE DaemonStart ----------------------------
(***************************************************************************)
(* The start of the processes that share one home directory: the daemon    *)
(* (main.rs of cloudsync-daemon) loads its configuration, makes the sync   *)
(* folder, opens the database, makes its client and binds the socket;      *)
(* programs that mount the filesystem open the same database with a        *)
(* longer list of migrations.  Database::open reads the version, opens a   *)
(* deferred transaction and runs what is pending, so the opens of several  *)
(* processes interleave between reading and writing.  Settings are saved   *)
(* or edited meanwhile, and processes are killed.                          *)
(***************************************************************************)
EXTENDS Configuration

CONSTANTS Procs,
          Daemons,      \* the processes that run the daemon's main
          Length,       \* per process, the length of its list of migrations
          Once,         \* migrations with a plain CREATE INDEX
          Documents,    \* what a user may write into the configuration file
          Configs,      \* the configurations that may be saved
          MaxStarts,    \* bound: starts of processes
          MaxSaves      \* bound: changes of the configuration file

Nobody == "nobody"

ASSUME ConstantsAssumption ==
    /\ Daemons \subseteq Procs
    /\ Nobody \notin Procs
    /\ Length \in [Procs -> Nat]
    \* every list begins with the migrations of accounts and files
    /\ \A p \in Procs : Once \subseteq 1..Length[p]
    /\ \A d \in Documents \ {Garbage} : DOMAIN d \subseteq DOMAIN Default
    /\ \A c \in Configs : c = [f \in DOMAIN Default |-> c[f]]
    /\ {MaxStarts, MaxSaves} \subseteq Nat

VARIABLES
    version, tables,    \* the committed user_version and applied migrations
    wal,                \* the database file is in WAL mode
    writer,             \* the process that holds SQLite's write lock, or Nobody
    pc,                 \* where each process is
    pending,            \* per process, the migrations it has yet to run
    tx,                 \* per process, what its transaction has written
    dirs,               \* the directories of CloudSyncPaths that exist
    file,               \* the configuration file: a document, or Absent
    saving,             \* the configuration that a save is writing, or Error
    config,             \* per daemon, the configuration it has loaded
    serving,            \* daemons whose IPC server is bound
    starts, saves,
    \* history variables, read by properties only:
    alone,      \* no other process has opened the database during this one's open
    intended,   \* the configuration last put in place; Default if there was no file
    expected,   \* per daemon, intended when it loaded its configuration
    clean       \* per daemon, no save was under way or broken off then

database == <<version, tables, wal, writer>>
cfg == <<dirs, file, saving, config, saves, intended, expected, clean>>
vars == <<database, pc, pending, tx, serving, starts, alone, cfg>>

Opening == {"open", "pending", "tx", "commit"}
Ended == {"down", "noFile", "dbFailed", "exited"}
NoTx == [version |-> 0, tables |-> {}]

\* The list of migrations that p passes to Database::open.
Migrations(p) == 1..Length[p]

TypeOK ==
    /\ version \in Nat /\ tables \subseteq Nat
    /\ writer \in Procs \cup {Nobody}
    /\ pc \in [Procs -> Ended \cup Opening \cup {"load", "root", "client", "bind", "running"}]
    /\ \A p \in Procs : pending[p] \subseteq Migrations(p)
    /\ dirs \subseteq {"config", "data", "cache", "logs", "files"}
    /\ file \in {Absent, Garbage} \/ DOMAIN file \subseteq DOMAIN Default
    /\ saving \in Configs \cup {Error}
    /\ \A p \in Daemons : DOMAIN config[p] = DOMAIN Default
    /\ serving \subseteq Daemons
    /\ starts <= MaxStarts /\ saves <= MaxSaves
    \* the write lock is held within migrate, and for all that is to be committed
    /\ writer # Nobody => pc[writer] \in {"tx", "commit"}
    /\ \A p \in Procs : pc[p] = "commit" => writer = p

Init ==
    /\ version = 0 /\ tables = {} /\ wal = FALSE
    /\ writer = Nobody
    /\ pc = [p \in Procs |-> "down"]
    /\ pending = [p \in Procs |-> {}]
    /\ tx = [p \in Procs |-> NoTx]
    /\ dirs \in {{}, {"data"}}
    /\ file = Absent
    /\ saving = Error
    /\ config = [p \in Daemons |-> Default]
    /\ serving = {}
    /\ starts = 0 /\ saves = 0
    /\ alone = [p \in Procs |-> TRUE]
    /\ intended = Default
    /\ expected = [p \in Daemons |-> Default]
    /\ clean = [p \in Daemons |-> TRUE]

Goto(p, l) == pc' = [pc EXCEPT ![p] = l]

\* p calls Database::open, maybe while others are in it.
OpenBegins(p) ==
    /\ Goto(p, "open")
    /\ alone' = [q \in Procs |-> IF q = p THEN \A r \in Procs \ {p} : pc[r] \notin Opening
                                 ELSE alone[q] /\ pc[q] \notin Opening]

-----------------------------------------------------------------------------
(* The configuration.                                                      *)

\* save_to_file: validate, create the directory, open and truncate the file.
SaveBegin(c) ==
    /\ saves < MaxSaves /\ saving = Error
    /\ validate(c)
    /\ saves' = saves + 1
    /\ dirs' = dirs \cup {"config"}
    /\ file' = <<>>
    /\ saving' = c
    /\ UNCHANGED <<database, pc, pending, tx, serving, starts, alone, config, intended, expected, clean>>

\* fs::write writes the contents; or it fails or is killed before or within.
SaveEnds ==
    /\ saving # Error
    /\ file' \in {saving} \cup Torn(saving)
    /\ intended' = IF file' = saving THEN saving ELSE Error
    /\ saving' = Error
    /\ UNCHANGED <<database, pc, pending, tx, serving, starts, alone, dirs, config, saves,
                   expected, clean>>

\* The user edits the file by hand, with or without mistakes, or removes it.
Edit(doc) ==
    /\ saves < MaxSaves /\ saving = Error
    /\ saves' = saves + 1
    /\ dirs' = dirs \cup {"config"}
    /\ file' = doc
    /\ intended' = IF doc = Absent THEN Default
                   ELSE IF doc = Garbage THEN Garbage ELSE Parsed(doc)
    /\ UNCHANGED <<database, pc, pending, tx, serving, starts, alone, saving, config, expected, clean>>

\* CloudSyncPaths::create_directories; main does not call it.
create_directories ==
    /\ dirs' = {"config", "data", "cache", "logs", "files"}
    /\ dirs' # dirs
    /\ UNCHANGED <<database, pc, pending, tx, serving, starts, alone, file, saving, config, saves,
                   intended, expected, clean>>

\* load_from_file: no file gives the defaults; what parses is validated.
Loads(doc) ==
    IF doc = Absent THEN Default
    ELSE IF doc # Garbage /\ validate(Parsed(doc)) THEN Parsed(doc) ELSE Error

\* Mutant of LoadConfig: an error is taken for the defaults.
LoadConfigLenient(p) ==
    /\ pc[p] = "load"
    /\ config' = [config EXCEPT ![p] = IF Loads(file) = Error THEN Default ELSE Loads(file)]
    /\ expected' = [expected EXCEPT ![p] = intended]
    /\ clean' = [clean EXCEPT ![p] = saving = Error /\ intended # Error]
    /\ Goto(p, "root")
    /\ UNCHANGED <<database, pending, tx, serving, starts, alone, dirs, file, saving, saves, intended>>

\* main: an error of load_from_file ends the daemon.
LoadConfig(p) ==
    /\ pc[p] = "load"
    /\ \/ /\ Loads(file) = Error
          /\ Goto(p, "exited")
          /\ UNCHANGED config
       \/ /\ Loads(file) # Error
          /\ config' = [config EXCEPT ![p] = Loads(file)]
          /\ Goto(p, "root")
    /\ expected' = [expected EXCEPT ![p] = intended]
    /\ clean' = [clean EXCEPT ![p] = saving = Error /\ intended # Error]
    /\ UNCHANGED <<database, pending, tx, serving, starts, alone, dirs, file, saving, saves, intended>>

\* ensure_provider_root: the sync folder is made, or the daemon ends.
EnsureRoot(p) ==
    /\ pc[p] = "root"
    /\ OpenBegins(p) \/ (Goto(p, "exited") /\ UNCHANGED alone)
    /\ UNCHANGED <<database, pending, tx, serving, starts, cfg>>

-----------------------------------------------------------------------------
(* Processes.                                                              *)

\* The daemon begins with its configuration, the others open the database.
Start(p) ==
    /\ pc[p] \in Ended
    /\ starts < MaxStarts
    /\ starts' = starts + 1
    /\ \/ p \in Daemons /\ Goto(p, "load") /\ UNCHANGED alone
       \/ p \notin Daemons /\ OpenBegins(p)
    /\ UNCHANGED <<database, pending, tx, serving, cfg>>

\* A transaction that has not committed is rolled back when its connection goes.
Rollback(p) ==
    /\ writer' = IF writer = p THEN Nobody ELSE writer
    /\ tx' = [tx EXCEPT ![p] = NoTx]
    /\ pending' = [pending EXCEPT ![p] = {}]
    /\ UNCHANGED <<version, tables>>

Kill(p) ==
    /\ pc[p] \notin Ended
    /\ Goto(p, "down")
    /\ Rollback(p)
    /\ serving' = serving \ {p}
    /\ UNCHANGED <<wal, starts, alone, cfg>>

-----------------------------------------------------------------------------
(* Database::open.                                                         *)

\* The configurations of a connection, and what apply_pragmas sets for each.
FileWithWal == [memory |-> FALSE, enableWal |-> TRUE, readOnly |-> FALSE]
EnablesWal(c) == c.enableWal /\ ~ c.memory /\ ~ c.readOnly

\* Another process is in a transaction.
Busy(p) == \E q \in Procs \ {p} : writer = q

\* The file is opened or created, if its directory exists; the first connection
\* switches it to WAL mode, which fails while another one writes.
Open(p) ==
    /\ pc[p] = "open"
    /\ \/ /\ "data" \in dirs
          /\ wal' = (wal \/ EnablesWal(FileWithWal))
          /\ Goto(p, "pending")
       \/ "data" \notin dirs /\ Goto(p, "noFile") /\ UNCHANGED wal
       \/ Busy(p) /\ ~ wal /\ Goto(p, "dbFailed") /\ UNCHANGED wal
    /\ UNCHANGED <<version, tables, writer, pending, tx, serving, starts, alone, cfg>>

\* What is left to main when the database is open.
Opened(p) == IF p \in Daemons THEN "client" ELSE "running"

\* Mutant of PendingMigrations: the filter is >=.
PendingMigrationsGe(p) ==
    /\ pc[p] = "pending"
    /\ pending' = [pending EXCEPT ![p] = {m \in Migrations(p) : m >= version}]
    /\ Goto(p, IF pending'[p] = {} THEN Opened(p) ELSE "tx")
    /\ UNCHANGED <<database, tx, serving, starts, alone, cfg>>

\* migrate: the version is read, and what is pending, outside of the transaction.
PendingMigrations(p) ==
    /\ pc[p] = "pending"
    /\ pending' = [pending EXCEPT ![p] = {m \in Migrations(p) : m > version}]
    /\ Goto(p, IF pending'[p] = {} THEN Opened(p) ELSE "tx")
    /\ UNCHANGED <<database, tx, serving, starts, alone, cfg>>

\* What a statement of p sees: its own transaction, or what is committed.
Sees(p) == IF writer = p THEN tx[p] ELSE [version |-> version, tables |-> tables]

\* Mutant of RunMigration: every migration is committed by itself.
RunMigrationAlone(p) ==
    /\ pc[p] = "tx"
    /\ ~ Busy(p)
    /\ \E m \in pending[p] :
        /\ \A k \in pending[p] : m <= k
        /\ ~ (m \in Once /\ m \in tables)
        /\ version' = m
        /\ tables' = tables \cup {m}
        /\ pending' = [pending EXCEPT ![p] = @ \ {m}]
        /\ Goto(p, IF pending[p] = {m} THEN Opened(p) ELSE "tx")
    /\ UNCHANGED <<wal, writer, tx, serving, starts, alone, cfg>>

\* The next migration and its version are written in the transaction, which takes
\* the write lock at its first statement that writes.
RunMigration(p) ==
    /\ pc[p] = "tx"
    /\ ~ Busy(p)
    /\ \E m \in pending[p] :
        /\ \A k \in pending[p] : m <= k
        /\ ~ (m \in Once /\ m \in Sees(p).tables)
        /\ tx' = [tx EXCEPT ![p] = [version |-> m, tables |-> Sees(p).tables \cup {m}]]
        /\ pending' = [pending EXCEPT ![p] = @ \ {m}]
        /\ writer' = p
        /\ Goto(p, IF pending[p] = {m} THEN "commit" ELSE "tx")
    /\ UNCHANGED <<version, tables, wal, serving, starts, alone, cfg>>

\* An index that exists already, or a write lock that did not come free within the
\* busy timeout: the transaction is rolled back and the open fails.
MigrationFails(p) ==
    /\ pc[p] = "tx"
    /\ \/ Busy(p)
       \/ \E m \in pending[p] : /\ \A k \in pending[p] : m <= k
                                /\ m \in Once /\ m \in Sees(p).tables
    /\ Goto(p, "dbFailed")
    /\ Rollback(p)
    /\ UNCHANGED <<wal, serving, starts, alone, cfg>>

\* Mutant of Commit: the call is missing, and the Transaction rolls back when it is
\* dropped.
CommitForgotten(p) ==
    /\ pc[p] = "commit"
    /\ Rollback(p)
    /\ Goto(p, Opened(p))
    /\ UNCHANGED <<wal, serving, starts, alone, cfg>>

Commit(p) ==
    /\ pc[p] = "commit"
    /\ version' = tx[p].version
    /\ tables' = tx[p].tables
    /\ writer' = Nobody
    /\ tx' = [tx EXCEPT ![p] = NoTx]
    /\ Goto(p, Opened(p))
    /\ UNCHANGED <<wal, pending, serving, starts, alone, cfg>>

-----------------------------------------------------------------------------
(* The rest of main.                                                       *)

\* create_gdrive_client: the credentials are not in the environment, or the
\* authenticator cannot be built.
create_gdrive_client == {"client", "error"}

\* main ends with the error, or with that of GoogleDriveProvider::new.
CreateClient(p) ==
    /\ pc[p] = "client"
    /\ \E result \in create_gdrive_client : Goto(p, IF result = "error" THEN "exited" ELSE "bind")
    /\ UNCHANGED <<database, pending, tx, serving, starts, alone, cfg>>

\* The accounts are read and IpcServer::bind is called, whose failure is logged.
BindServer(p) ==
    /\ pc[p] = "bind"
    /\ serving' \in {serving, serving \cup {p}}
    /\ Goto(p, "running")
    /\ UNCHANGED <<database, pending, tx, starts, alone, cfg>>

Next ==
    \/ \E c \in Configs : SaveBegin(c)
    \/ \E d \in Documents \cup {Absent} : Edit(d)
    \/ SaveEnds
    \/ create_directories
    \/ \E p \in Procs : \/ Start(p) \/ Kill(p)
                        \/ Open(p) \/ PendingMigrations(p)
                        \/ RunMigration(p) \/ MigrationFails(p) \/ Commit(p)
    \/ \E p \in Daemons : LoadConfig(p) \/ EnsureRoot(p) \/ CreateClient(p) \/ BindServer(p)

Spec == Init /\ [][Next]_vars

-----------------------------------------------------------------------------
(* Properties.                                                             *)

S == INSTANCE Schema WITH Targets <- {Length[p] : p \in Procs}

\* However the processes interleave and wherever one is killed, the database goes
\* from one whole schema to another (migrate: "all changes are rolled back and the
\* version is not updated"): no list is applied in part, no table is left out, no
\* index is made twice, although the version is read before the transaction.
MigratesWhole == S!Spec

\* A process to which Database::open has returned works with all tables of its own
\* list (migrate: "Runs all pending migrations on the given connection"), although
\* it counts what is pending before others commit theirs, which may move the version
\* back behind its own list.
OpenedMeansMigrated ==
    \A p \in Procs : pc[p] \in {"client", "bind", "running"} => Migrations(p) \subseteq tables

\* A process that opens the database while no other does so succeeds, whatever
\* kills, failures and races have left there, if the data directory exists.
LoneStartSucceeds ==
    \A p \in Procs : pc[p] = "dbFailed" => ~ alone[p]

\* A daemon runs with the settings that were last put in place, the defaults for
\* what they leave out, and all of them valid; a file in error ends it.  Only a
\* daemon that starts in the middle of a save, or after one that broke off, may run
\* with others.
RunsAsConfigured ==
    \A p \in Daemons : pc[p] = "running" =>
        /\ validate(config[p])
        /\ clean[p] => config[p] = expected[p]

-----------------------------------------------------------------------------
(***************************************************************************)
(* Inductive invariants (proved in Daemon_proofs).                         *)
(***************************************************************************)

\* What the type invariant leaves open.
Shape ==
    /\ pending \in [Procs -> SUBSET Nat]
    /\ tx \in [Procs -> [version : Nat, tables : SUBSET Nat]]
    /\ alone \in [Procs -> BOOLEAN]
    /\ clean \in [Daemons -> BOOLEAN]
    /\ config = [p \in Daemons |-> config[p]]
    /\ expected = [p \in Daemons |-> expected[p]]
    /\ starts \in Nat /\ saves \in Nat

\* A list is the rest of a list behind migrations that have all been applied; and a
\* transaction has applied a piece of its list, behind those and up to the rest.
Rest(p, k) == pending[p] = k + 1 .. Length[p]

Waiting(p) == \E k \in 0 .. Length[p] - 1 : Rest(p, k) /\ 1..k \subseteq tables

Writes(p, lo) ==
    /\ lo <= tx[p].version /\ tx[p].version <= Length[p]
    /\ 1..lo - 1 \subseteq tables
    /\ tx[p].tables = tables \cup lo..tx[p].version
    /\ lo..tx[p].version \cap tables \cap Once = {}
    /\ Rest(p, tx[p].version)

SchemaInv ==
    /\ TypeOK /\ Shape
    /\ 1..version \subseteq tables
    /\ \A p \in Procs : pc[p] = "tx" /\ writer # p => Waiting(p)
    /\ \A p \in Procs : writer = p => \E lo \in 1..Length[p] : Writes(p, lo)
    /\ \A p \in Procs : pc[p] = "commit" => pending[p] = {}
    /\ \A p \in Procs : pc[p] = "tx" => pending[p] # {}

\* What has been applied stays, so who has opened the database keeps its tables.
OpenedInv == SchemaInv /\ OpenedMeansMigrated

\* The version covers what cannot be repeated; who is alone in the database stays so,
\* and none of its migrations has been applied that cannot be repeated.
AloneInv ==
    /\ SchemaInv
    /\ LoneStartSucceeds
    /\ tables \cap Once \subseteq 1..version
    /\ \A p \in Procs : alone[p] /\ pc[p] \in Opening =>
        /\ \A q \in Procs \ {p} : pc[q] \notin Opening
        /\ pc[p] = "tx" => pending[p] \cap tables \cap Once = {}

\* A file that no save is writing or has broken loads as intended, if at all; a daemon
\* that has loaded it keeps what it loaded.
Loaded == Opening \cup {"root", "client", "bind", "running"}

ConfigInv ==
    /\ TypeOK /\ Shape
    /\ saving = Error /\ intended # Error /\ Loads(file) # Error => Loads(file) = intended
    /\ \A p \in Daemons : pc[p] \in Loaded =>
        /\ validate(config[p])
        /\ clean[p] => config[p] = expected[p]
=============================================================================
