--------------------------- MODULE Daemon_proofs ----------------------------
(***************************************************************************)
(* Proofs about the daemon, for any processes, tasks, accounts, paths and  *)
(* lists of migrations.  DaemonStart implements Schema, a start that is    *)
(* alone succeeds, and a daemon runs as configured.  In DaemonHandler the  *)
(* tables keep their constraints, nothing is left of a deleted account, no *)
(* update is lost but between the processes, and only what is not there is *)
(* refused.                                                                *)
(***************************************************************************)
EXTENDS DaemonStart, DaemonHandler, FiniteSetTheorems, SequenceTheorems,
        WellFoundedInduction, TLAPS

-----------------------------------------------------------------------------
(* The operators of Configuration.                                         *)

\* The fields of a configuration.
LEMMA DefaultDomain ==
    DOMAIN Default = {"log_level", "launch_on_startup", "root_folder", "bandwidth_limit_up",
                      "bandwidth_limit_down", "cache_size_mb", "resolution"}
<1>1. DOMAIN Fields = 1..7
  BY DEF Fields
<1>2. {Fields[i] : i \in 1..7} = {Fields[1], Fields[2], Fields[3], Fields[4], Fields[5],
                                  Fields[6], Fields[7]}
  OBVIOUS
<1>3. /\ Fields[1] = "log_level" /\ Fields[2] = "launch_on_startup"
      /\ Fields[3] = "root_folder" /\ Fields[4] = "bandwidth_limit_up"
      /\ Fields[5] = "bandwidth_limit_down" /\ Fields[6] = "cache_size_mb"
      /\ Fields[7] = "resolution"
  BY DEF Fields
<1> QED BY <1>1, <1>2, <1>3 DEF Default

\* The defaults are valid.
LEMMA DefaultValid == validate(Default)
<1>1. "cache_size_mb" \in DOMAIN Default
  BY DefaultDomain
<1>2. Default["cache_size_mb"] = SyncConfig["cache_size_mb"]
  BY <1>1 DEF Default, GeneralConfig, SyncConfig
<1>3. SyncConfig["cache_size_mb"] = 1024
  BY DEF SyncConfig
<1> QED BY <1>2, <1>3 DEF validate

\* A function of all fields is a configuration, and none of the other things that
\* may stand in its place.
LEMMA NoConfig ==
    ASSUME NEW c, DOMAIN c = DOMAIN Default
    PROVE  c # Error /\ c # Absent /\ c # Garbage
<1>1. "log_level" \in DOMAIN c
  BY DefaultDomain
<1>2. "log_level" \notin DOMAIN Error /\ "log_level" \notin DOMAIN Absent
      /\ "log_level" \notin DOMAIN Garbage
  BY DEF Error, Absent, Garbage
<1> QED BY <1>1, <1>2

\* What is parsed has all fields, and what was saved is parsed as it was.
LEMMA ParsedFields ==
    /\ \A doc : DOMAIN Parsed(doc) = DOMAIN Default
    /\ \A c \in Configs : Parsed(c) = c /\ DOMAIN c = DOMAIN Default
<1>1. \A doc : DOMAIN Parsed(doc) = DOMAIN Default
  BY DEF Parsed
<1>2. ASSUME NEW c \in Configs PROVE Parsed(c) = c /\ DOMAIN c = DOMAIN Default
  <2>1. c = [f \in DOMAIN Default |-> c[f]]
    BY ConstantsAssumption
  <2>2. DOMAIN c = DOMAIN Default
    BY <2>1
  <2>3. Parsed(c) = [f \in DOMAIN Default |-> c[f]]
    BY <2>2 DEF Parsed
  <2> QED BY <2>1, <2>2, <2>3
<1> QED BY <1>1, <1>2

\* load_from_file gives a whole and valid configuration, or an error.
LEMMA LoadsValid ==
    ASSUME NEW doc, Loads(doc) # Error
    PROVE  DOMAIN Loads(doc) = DOMAIN Default /\ validate(Loads(doc))
<1>1. CASE doc = Absent
  BY <1>1, DefaultValid DEF Loads
<1>2. CASE doc # Absent
  BY <1>2, ParsedFields DEF Loads
<1> QED BY <1>1, <1>2

\* What a broken save leaves sets some of the fields, or does not parse.
LEMMA TornFields ==
    ASSUME NEW c \in Configs, NEW d \in Torn(c)
    PROVE  d = Garbage \/ DOMAIN d \subseteq DOMAIN Default
<1> DEFINE First(n) == [f \in {Fields[i] : i \in 1..n} |-> c[f]]
<1>1. Len(Fields) = 7 /\ DOMAIN Fields = 1..7 /\ DOMAIN Default = {Fields[i] : i \in 1..7}
  BY DEF Fields, Default
<1>2. ASSUME NEW n \in 0..7 PROVE DOMAIN First(n) \subseteq DOMAIN Default
  <2>1. 1..n \subseteq 1..7
    OBVIOUS
  <2> QED BY <1>1, <2>1
<1>3. CASE \E n \in 0..Len(Fields) - 1 : d = First(n)
  BY <1>1, <1>2, <1>3
<1>4. CASE \E i \in 4..6 : d = [First(i) EXCEPT ![Fields[i]] = @ \div 10]
  <2>1. PICK i \in 4..6 : d = [First(i) EXCEPT ![Fields[i]] = @ \div 10]
    BY <1>4
  <2>2. DOMAIN d = DOMAIN First(i)
    BY <2>1
  <2> QED BY <1>2, <2>2
<1> QED BY <1>3, <1>4 DEF Torn

-----------------------------------------------------------------------------
(* Types.                                                                  *)

\* The initial states have their types.
LEMMA InitType == Init => TypeOK /\ Shape
<1> SUFFICES ASSUME Init PROVE TypeOK /\ Shape
  OBVIOUS
<1> USE ConstantsAssumption
<1>1. alone \in [Procs -> BOOLEAN] /\ clean \in [Daemons -> BOOLEAN]
  BY Zenon DEF Init
<1>2. Shape
  BY <1>1 DEF Init, Shape, NoTx
<1>3. TypeOK
  BY DEF Init, TypeOK, Ended
<1> QED BY <1>2, <1>3

\* Steps of the configuration file keep the types.
LEMMA FileType ==
    ASSUME TypeOK, Shape,
           \/ \E c \in Configs : SaveBegin(c)
           \/ \E d \in Documents \cup {Absent} : Edit(d)
           \/ SaveEnds \/ create_directories
    PROVE  TypeOK' /\ Shape'
<1> USE ConstantsAssumption DEF TypeOK, Shape, database
<1>1. ASSUME NEW c \in Configs, SaveBegin(c) PROVE TypeOK' /\ Shape'
  <2>1. DOMAIN <<>> \subseteq DOMAIN Default
    OBVIOUS
  <2> QED BY <1>1, <2>1 DEF SaveBegin
<1>2. ASSUME NEW d \in Documents \cup {Absent}, Edit(d) PROVE TypeOK' /\ Shape'
  BY <1>2 DEF Edit
<1>3. ASSUME SaveEnds PROVE TypeOK' /\ Shape'
  <2>1. file' \in {Absent, Garbage} \/ DOMAIN file' \subseteq DOMAIN Default
    BY <1>3, TornFields, ParsedFields DEF SaveEnds
  <2> QED BY <1>3, <2>1 DEF SaveEnds
<1>4. ASSUME create_directories PROVE TypeOK' /\ Shape'
  BY <1>4 DEF create_directories
<1> QED BY <1>1, <1>2, <1>3, <1>4

\* Calling Database::open keeps the types of what it changes.
LEMMA OpenBeginsType ==
    ASSUME alone \in [Procs -> BOOLEAN], NEW p \in Procs, OpenBegins(p)
    PROVE  alone' \in [Procs -> BOOLEAN]
BY Zenon DEF OpenBegins

\* Steps of the processes keep the types.
LEMMA ProcType ==
    ASSUME TypeOK, Shape, NEW p \in Procs,
           Start(p) \/ Kill(p) \/ Open(p) \/ PendingMigrations(p) \/ RunMigration(p)
           \/ MigrationFails(p) \/ Commit(p)
    PROVE  TypeOK' /\ Shape'
<1> USE ConstantsAssumption
        DEF TypeOK, Shape, database, cfg, Goto, Ended, Opening, Opened, Migrations, NoTx, Rollback
<1>1. ASSUME Start(p) PROVE TypeOK' /\ Shape'
  <2>1. alone' \in [Procs -> BOOLEAN]
    BY <1>1, OpenBeginsType DEF Start
  <2>2. \E l \in {"load", "open"} : Goto(p, l)
    BY <1>1 DEF Start, OpenBegins
  <2> QED BY <1>1, <2>1, <2>2 DEF Start
<1>2. ASSUME Kill(p) PROVE TypeOK' /\ Shape'
  BY <1>2 DEF Kill
<1>3. ASSUME Open(p) PROVE TypeOK' /\ Shape'
  BY <1>3 DEF Open
<1>4. ASSUME PendingMigrations(p) PROVE TypeOK' /\ Shape'
  BY <1>4 DEF PendingMigrations
<1>5. ASSUME RunMigration(p) PROVE TypeOK' /\ Shape'
  BY <1>5 DEF RunMigration, Sees, Busy
<1>6. ASSUME MigrationFails(p) PROVE TypeOK' /\ Shape'
  BY <1>6 DEF MigrationFails
<1>7. ASSUME Commit(p) PROVE TypeOK' /\ Shape'
  BY <1>7 DEF Commit
<1> QED BY <1>1, <1>2, <1>3, <1>4, <1>5, <1>6, <1>7

\* Steps of main outside of Database::open keep the types.
LEMMA MainType ==
    ASSUME TypeOK, Shape, NEW p \in Daemons,
           LoadConfig(p) \/ EnsureRoot(p) \/ CreateClient(p) \/ BindServer(p)
    PROVE  TypeOK' /\ Shape'
<1>0. p \in Procs
  BY ConstantsAssumption
<1> USE ConstantsAssumption, <1>0 DEF TypeOK, Shape, database, cfg, Goto, Ended, Opening
<1>1. ASSUME LoadConfig(p) PROVE TypeOK' /\ Shape'
  <2>1. clean' \in [Daemons -> BOOLEAN]
    BY <1>1, Zenon DEF LoadConfig
  <2>2. Loads(file) # Error => DOMAIN Loads(file) = DOMAIN Default
    BY LoadsValid
  <2>3. CASE Loads(file) = Error
    BY <1>1, <2>1, <2>3 DEF LoadConfig
  <2>4. CASE Loads(file) # Error
    <3>1. config' = [config EXCEPT ![p] = Loads(file)]
      BY <1>1, <2>4 DEF LoadConfig
    <3>2. /\ config' = [q \in Daemons |-> config'[q]]
          /\ \A q \in Daemons : DOMAIN config'[q] = DOMAIN Default
      BY <2>2, <2>4, <3>1
    <3>3. expected' = [q \in Daemons |-> expected'[q]]
      BY <1>1 DEF LoadConfig
    <3>4. /\ Goto(p, "root") /\ pc[p] = "load"
          /\ UNCHANGED <<version, tables, writer, pending, tx, serving, starts, alone, dirs,
                         file, saving, saves>>
      BY <1>1, <2>4 DEF LoadConfig
    <3>5. TypeOK'
      BY <3>2, <3>4
    <3>6. Shape'
      BY <2>1, <3>2, <3>3, <3>4
    <3> QED BY <3>5, <3>6
  <2> QED BY <2>3, <2>4
<1>2. ASSUME EnsureRoot(p) PROVE TypeOK' /\ Shape'
  <2>1. alone' \in [Procs -> BOOLEAN]
    BY <1>2, OpenBeginsType DEF EnsureRoot
  <2> QED BY <1>2, <2>1 DEF EnsureRoot, OpenBegins
<1>3. ASSUME CreateClient(p) PROVE TypeOK' /\ Shape'
  BY <1>3 DEF CreateClient
<1>4. ASSUME BindServer(p) PROVE TypeOK' /\ Shape'
  BY <1>4 DEF BindServer
<1> QED BY <1>1, <1>2, <1>3, <1>4

\* Every step keeps the types.
LEMMA NextType == ASSUME TypeOK, Shape, [Next]_vars PROVE TypeOK' /\ Shape'
<1>1. CASE UNCHANGED vars
  BY <1>1 DEF vars, database, cfg, TypeOK, Shape
<1> QED BY <1>1, FileType, ProcType, MainType DEF Next

-----------------------------------------------------------------------------
(* The schema.                                                             *)

\* The smallest of the migrations that are left.
LEMMA NextMigration ==
    ASSUME NEW k \in Nat, NEW n \in Nat, NEW m \in k + 1 .. n,
           \A j \in k + 1 .. n : m <= j
    PROVE  m = k + 1 /\ (k + 1 .. n) \ {m} = m + 1 .. n /\ m <= n
<1>1. k + 1 \in k + 1 .. n
  OBVIOUS
<1>2. m = k + 1
  BY <1>1
<1>3. ASSUME NEW x PROVE x \in (k + 1 .. n) \ {m} <=> x \in m + 1 .. n
  BY <1>2
<1> QED BY <1>2, <1>3

\* Steps in which nobody enters or leaves migrate.
LEMMA SchemaFrame ==
    ASSUME SchemaInv, TypeOK', Shape', UNCHANGED <<version, tables, writer, pending, tx>>,
           \A p \in Procs : pc'[p] \in {"tx", "commit"} => pc'[p] = pc[p]
    PROVE  SchemaInv'
BY DEF SchemaInv, Waiting, Writes, Rest

\* A rollback gives up the transaction and changes nothing that others rely on.
LEMMA SchemaRollback ==
    ASSUME SchemaInv, TypeOK', Shape', NEW p \in Procs, Rollback(p),
           \E l \in Ended : Goto(p, l)
    PROVE  SchemaInv'
<1>1. pc'[p] \in Ended /\ \A q \in Procs \ {p} : pc'[q] = pc[q]
  BY DEF SchemaInv, TypeOK, Goto
<1>2. /\ \A q \in Procs \ {p} : tx'[q] = tx[q] /\ pending'[q] = pending[q]
      /\ \A q \in Procs : writer' = q <=> writer = q /\ q # p
      /\ UNCHANGED <<version, tables>>
  BY ConstantsAssumption DEF SchemaInv, TypeOK, Shape, Rollback
<1> QED BY <1>1, <1>2 DEF SchemaInv, Waiting, Writes, Rest, Ended

\* What is pending follows all that has been applied.
LEMMA SchemaPending ==
    ASSUME SchemaInv, TypeOK', Shape', NEW p \in Procs, PendingMigrations(p)
    PROVE  SchemaInv'
<1> USE ConstantsAssumption DEF SchemaInv, TypeOK, Shape
<1>1. /\ pc[p] = "pending" /\ writer # p
      /\ \A q \in Procs \ {p} : pc'[q] = pc[q] /\ pending'[q] = pending[q]
      /\ UNCHANGED <<version, tables, writer, tx>>
  BY DEF PendingMigrations, Goto, database
<1>2. pending'[p] = version + 1 .. Length[p]
  BY DEF PendingMigrations, Migrations
<1>3. pc'[p] \in {"tx", "client", "running"} /\ (pc'[p] = "tx" => pending'[p] # {})
  BY DEF PendingMigrations, Goto, Opened
<1>4. pc'[p] = "tx" => Waiting(p)'
  <2>1. SUFFICES ASSUME pc'[p] = "tx" PROVE Waiting(p)'
    OBVIOUS
  <2>2. version \in 0 .. Length[p] - 1
    BY <1>2, <1>3, <2>1
  <2> QED BY <1>1, <1>2, <2>2 DEF Waiting, Rest
<1>5. \A q \in Procs \ {p} : Waiting(q) => Waiting(q)'
  BY <1>1 DEF Waiting, Rest
<1>6. \A q \in Procs : writer = q => \A lo \in 1..Length[q] : Writes(q, lo) => Writes(q, lo)'
  BY <1>1 DEF Writes, Rest
<1>7. \A q \in Procs : pc'[q] = "tx" /\ writer' # q => Waiting(q)'
  BY <1>1, <1>4, <1>5
<1>8. \A q \in Procs : writer' = q => \E lo \in 1..Length[q] : Writes(q, lo)'
  BY <1>1, <1>6
<1> QED BY <1>1, <1>3, <1>7, <1>8

\* What a transaction has applied once it has run the next migration of its list.
LEMMA RunWrites ==
    ASSUME SchemaInv, NEW p \in Procs, pc[p] = "tx", NEW m \in pending[p],
           \A k \in pending[p] : m <= k, ~ (m \in Once /\ m \in Sees(p).tables),
           tx'[p].version = m, tx'[p].tables = Sees(p).tables \cup {m},
           pending'[p] = pending[p] \ {m}, UNCHANGED tables
    PROVE  \E lo \in 1..Length[p] : Writes(p, lo)'
<1>0. /\ writer = p => \E lo \in 1..Length[p] : Writes(p, lo)
      /\ writer # p => Waiting(p)
      /\ Length[p] \in Nat /\ tx[p].version \in Nat
  BY ConstantsAssumption DEF SchemaInv, Shape
<1>1. CASE writer = p
  <2>1. PICK lo \in 1..Length[p] : Writes(p, lo)
    BY <1>0, <1>1
  <2>2. pending[p] = tx[p].version + 1 .. Length[p]
    BY <2>1 DEF Writes, Rest
  <2>3. m = tx[p].version + 1 /\ pending[p] \ {m} = m + 1 .. Length[p] /\ m <= Length[p]
    <3>1. /\ m \in tx[p].version + 1 .. Length[p]
          /\ \A j \in tx[p].version + 1 .. Length[p] : m <= j
      BY <2>2
    <3>2. /\ m = tx[p].version + 1 /\ m <= Length[p]
          /\ (tx[p].version + 1 .. Length[p]) \ {m} = m + 1 .. Length[p]
      BY <1>0, <3>1, NextMigration
    <3> QED BY <2>2, <3>2
  <2>4. Sees(p).tables = tables \cup lo..tx[p].version
    BY <1>1, <2>1 DEF Writes, Sees
  <2>5. lo..m = lo..tx[p].version \cup {m} /\ lo <= m
    BY <1>0, <2>1, <2>3 DEF Writes
  <2>6. lo..m \cap tables \cap Once = {}
    BY <2>1, <2>4, <2>5 DEF Writes
  <2>7. tx'[p].tables = tables \cup lo..m
    BY <2>4, <2>5
  <2>8. Writes(p, lo)'
    BY <2>1, <2>3, <2>5, <2>6, <2>7 DEF Writes, Rest
  <2> QED BY <2>8
<1>2. CASE writer # p
  <2>1. PICK k \in 0 .. Length[p] - 1 : Rest(p, k) /\ 1..k \subseteq tables
    BY <1>0, <1>2 DEF Waiting
  <2>2. m = k + 1 /\ pending[p] \ {m} = m + 1 .. Length[p] /\ m <= Length[p]
    <3>1. pending[p] = k + 1 .. Length[p] /\ k \in Nat
      BY <2>1 DEF Rest
    <3>2. m \in k + 1 .. Length[p] /\ \A j \in k + 1 .. Length[p] : m <= j
      BY <3>1
    <3>3. m = k + 1 /\ m <= Length[p] /\ (k + 1 .. Length[p]) \ {m} = m + 1 .. Length[p]
      BY <1>0, <3>1, <3>2, NextMigration
    <3> QED BY <3>1, <3>3
  <2>3. Sees(p).tables = tables
    BY <1>2 DEF Sees
  <2>4. m \in 1..Length[p] /\ m..m = {m} /\ 1..m - 1 \subseteq tables
    BY <1>0, <2>1, <2>2
  <2>5. m..m \cap tables \cap Once = {}
    BY <2>3, <2>4
  <2>6. Writes(p, m)'
    BY <2>2, <2>3, <2>4, <2>5 DEF Writes, Rest
  <2> QED BY <2>4, <2>6
<1> QED BY <1>1, <1>2

\* The next migration of a list extends what the transaction has applied.
LEMMA SchemaRun ==
    ASSUME SchemaInv, TypeOK', Shape', NEW p \in Procs, RunMigration(p)
    PROVE  SchemaInv'
<1> USE ConstantsAssumption DEF SchemaInv, TypeOK, Shape
<1>0. PICK m \in pending[p] :
        /\ \A k \in pending[p] : m <= k
        /\ ~ (m \in Once /\ m \in Sees(p).tables)
        /\ tx' = [tx EXCEPT ![p] = [version |-> m, tables |-> Sees(p).tables \cup {m}]]
        /\ pending' = [pending EXCEPT ![p] = @ \ {m}]
        /\ writer' = p
        /\ Goto(p, IF pending[p] = {m} THEN "commit" ELSE "tx")
  BY DEF RunMigration
<1>1. /\ pc[p] = "tx" /\ writer \in {p, Nobody}
      /\ \A q \in Procs \ {p} : pc'[q] = pc[q] /\ pending'[q] = pending[q]
      /\ UNCHANGED <<version, tables>>
  BY <1>0 DEF RunMigration, Goto, Busy
<1>2. /\ tx'[p].version = m /\ tx'[p].tables = Sees(p).tables \cup {m}
      /\ pending'[p] = pending[p] \ {m}
      /\ pc'[p] = IF pending[p] = {m} THEN "commit" ELSE "tx"
  BY <1>0 DEF Goto
<1>3. \E lo \in 1..Length[p] : Writes(p, lo)'
  BY <1>0, <1>1, <1>2, RunWrites
<1>4. \A q \in Procs \ {p} : Waiting(q) => Waiting(q)'
  BY <1>1 DEF Waiting, Rest
<1>5. \A q \in Procs : pc'[q] = "tx" /\ writer' # q => Waiting(q)'
  BY <1>0, <1>1, <1>4
<1>6. \A q \in Procs : writer' = q => q = p
  BY <1>0
<1>7. \A q \in Procs : pc'[q] = "commit" => pending'[q] = {}
  BY <1>0, <1>1, <1>2
<1>8. \A q \in Procs : pc'[q] = "tx" => pending'[q] # {}
  BY <1>0, <1>1, <1>2
<1> QED BY <1>1, <1>3, <1>5, <1>6, <1>7, <1>8

\* A transaction that commits has come to the end of its list.
LEMMA CommitsWhole ==
    ASSUME SchemaInv, NEW p \in Procs, pc[p] = "commit"
    PROVE  \E lo \in 1..Length[p] : Writes(p, lo) /\ tx[p].version = Length[p]
<1>1. writer = p /\ pending[p] = {}
  BY DEF SchemaInv, TypeOK
<1>2. PICK lo \in 1..Length[p] : Writes(p, lo)
  BY <1>1 DEF SchemaInv
<1>3. Length[p] \in Nat /\ tx[p].version \in Nat /\ tx[p].version <= Length[p]
  BY <1>2, ConstantsAssumption DEF Writes, SchemaInv, Shape
<1>4. Length[p] \notin tx[p].version + 1 .. Length[p]
  BY <1>1, <1>2 DEF Writes, Rest
<1>5. tx[p].version = Length[p]
  BY <1>3, <1>4
<1> QED BY <1>2, <1>5

\* A commit makes the schema whole up to its version.
LEMMA SchemaCommit ==
    ASSUME SchemaInv, TypeOK', Shape', NEW p \in Procs, Commit(p)
    PROVE  SchemaInv'
<1> USE ConstantsAssumption DEF SchemaInv, TypeOK, Shape
<1>1. PICK lo \in 1..Length[p] : Writes(p, lo) /\ tx[p].version = Length[p]
  BY CommitsWhole DEF Commit
<1>2. /\ version' = Length[p] /\ tables' = tables \cup lo..Length[p]
      /\ writer' = Nobody /\ UNCHANGED pending
      /\ pc'[p] \notin {"tx", "commit"} /\ \A q \in Procs \ {p} : pc'[q] = pc[q]
  BY <1>1 DEF Commit, Writes, Goto, Opened
<1>3. 1..version' \subseteq tables'
  <2>1. ASSUME NEW x \in 1..Length[p] PROVE x \in 1..lo - 1 \/ x \in lo..Length[p]
    OBVIOUS
  <2> QED BY <1>1, <1>2, <2>1 DEF Writes
<1>4. \A q \in Procs : Waiting(q) => Waiting(q)'
  BY <1>2 DEF Waiting, Rest
<1>5. \A q \in Procs \ {p} : pc[q] = "tx" => Waiting(q)
  BY DEF Commit
<1> QED BY <1>2, <1>3, <1>4, <1>5

\* SchemaInv is inductive.
LEMMA SchemaStep == ASSUME SchemaInv, [Next]_vars PROVE SchemaInv'
<1>0. TypeOK /\ Shape /\ TypeOK' /\ Shape'
  BY NextType DEF SchemaInv
<1> USE <1>0 DEF database, cfg, TypeOK, Goto
<1>1. CASE \/ \E c \in Configs : SaveBegin(c)
           \/ \E d \in Documents \cup {Absent} : Edit(d)
           \/ SaveEnds \/ create_directories \/ UNCHANGED vars
  BY <1>1, SchemaFrame DEF SaveBegin, Edit, SaveEnds, create_directories, vars
<1>2. ASSUME NEW p \in Procs, Start(p) \/ Open(p) PROVE SchemaInv'
  BY <1>2, SchemaFrame DEF Start, Open, OpenBegins
<1>3. ASSUME NEW p \in Daemons, LoadConfig(p) \/ EnsureRoot(p) \/ CreateClient(p) \/ BindServer(p)
      PROVE  SchemaInv'
  BY <1>3, SchemaFrame, ConstantsAssumption
     DEF LoadConfig, EnsureRoot, CreateClient, BindServer, OpenBegins
<1>4. ASSUME NEW p \in Procs, Kill(p) \/ MigrationFails(p) PROVE SchemaInv'
  BY <1>4, SchemaRollback DEF Kill, MigrationFails, Ended
<1> QED BY <1>1, <1>2, <1>3, <1>4, SchemaPending, SchemaRun, SchemaCommit DEF Next

\* Only a commit changes the schema.
LEMMA OnlyCommit ==
    ASSUME [Next]_vars, \A p \in Procs : ~ Commit(p)
    PROVE  UNCHANGED <<version, tables>>
BY DEF Next, vars, database, SaveBegin, Edit, SaveEnds, create_directories, Start, Kill, Open,
       PendingMigrations, RunMigration, MigrationFails, Rollback, LoadConfig, EnsureRoot,
       CreateClient, BindServer

\* Tables are never taken away.
LEMMA TablesGrow ==
    ASSUME SchemaInv, [Next]_vars
    PROVE  tables \subseteq tables'
<1>1. ASSUME NEW p \in Procs, Commit(p) PROVE tables \subseteq tables'
  <2>1. PICK lo \in 1..Length[p] : Writes(p, lo)
    BY <1>1, CommitsWhole DEF Commit
  <2> QED BY <1>1, <2>1 DEF Commit, Writes
<1> QED BY <1>1, OnlyCommit

\* Only migrate makes a process that has not opened the database one that has.
LEMMA OnlyMigrate ==
    ASSUME SchemaInv, [Next]_vars, NEW p \in Procs,
           pc'[p] \in {"client", "bind", "running"},
           pc[p] \notin {"client", "bind", "running"}
    PROVE  PendingMigrations(p) \/ Commit(p)
<1>0. pc \in [Procs -> Ended \cup Opening \cup {"load", "root", "client", "bind", "running"}]
  BY DEF SchemaInv, TypeOK
<1> USE <1>0 DEF Goto, Ended
<1>1. CASE \/ \E c \in Configs : SaveBegin(c)
           \/ \E d \in Documents \cup {Absent} : Edit(d)
           \/ SaveEnds \/ create_directories \/ UNCHANGED vars
  BY <1>1 DEF SaveBegin, Edit, SaveEnds, create_directories, vars
<1>2. ASSUME NEW q \in Procs, Start(q) \/ Kill(q) PROVE FALSE
  BY <1>2 DEF Start, Kill, OpenBegins
<1>3. ASSUME NEW q \in Procs, Open(q) \/ RunMigration(q) \/ MigrationFails(q) PROVE FALSE
  BY <1>3 DEF Open, RunMigration, MigrationFails
<1>4. ASSUME NEW q \in Procs, PendingMigrations(q) \/ Commit(q) PROVE q = p
  BY <1>4 DEF PendingMigrations, Commit
<1>5. ASSUME NEW q \in Daemons,
             LoadConfig(q) \/ EnsureRoot(q) \/ CreateClient(q) \/ BindServer(q)
      PROVE  FALSE
  BY <1>5, ConstantsAssumption DEF LoadConfig, EnsureRoot, CreateClient, BindServer, OpenBegins
<1> QED BY <1>1, <1>2, <1>3, <1>4, <1>5 DEF Next

\* migrate ends with the whole list applied: because the version covers it already,
\* or because the transaction has come to its end.
LEMMA MigrateApplies ==
    ASSUME SchemaInv, [Next]_vars, NEW p \in Procs,
           pc'[p] \in {"client", "bind", "running"}, PendingMigrations(p) \/ Commit(p)
    PROVE  Migrations(p) \subseteq tables'
<1>0. /\ pc \in [Procs -> Ended \cup Opening \cup {"load", "root", "client", "bind", "running"}]
      /\ pending \in [Procs -> SUBSET Nat]
      /\ Length[p] \in Nat /\ version \in Nat /\ 1..version \subseteq tables
  BY ConstantsAssumption DEF SchemaInv, TypeOK, Shape
<1>1. CASE PendingMigrations(p)
  <2>1. {m \in Migrations(p) : m > version} = {}
    <3>1. pc'[p] = IF pending'[p] = {} THEN Opened(p) ELSE "tx"
      BY <1>0, <1>1 DEF PendingMigrations, Goto
    <3>2. pending'[p] = {m \in Migrations(p) : m > version}
      BY <1>0, <1>1 DEF PendingMigrations
    <3> QED BY <3>1, <3>2
  <2>2. Migrations(p) \subseteq 1..version
    BY <1>0, <2>1 DEF Migrations
  <2> QED BY <1>0, <2>2, TablesGrow
<1>2. CASE Commit(p)
  <2>1. PICK lo \in 1..Length[p] : Writes(p, lo) /\ tx[p].version = Length[p]
    BY <1>2, CommitsWhole DEF Commit
  <2>2. tables' = tables \cup lo..Length[p] /\ 1..lo - 1 \subseteq tables
    BY <1>2, <2>1 DEF Commit, Writes
  <2>3. ASSUME NEW x \in 1..Length[p] PROVE x \in 1..lo - 1 \/ x \in lo..Length[p]
    BY <1>0
  <2> QED BY <2>2, <2>3 DEF Migrations
<1> QED BY <1>1, <1>2

-----------------------------------------------------------------------------
(* A start that is alone.                                                  *)

\* Who holds the write lock is opening the database, so whoever finds it held is
\* not alone there.
LEMMA BusyNotAlone ==
    ASSUME AloneInv, NEW p \in Procs, pc[p] \in Opening, Busy(p)
    PROVE  ~ alone[p]
<1>1. PICK q \in Procs \ {p} : writer = q
  BY DEF Busy
<1>2. pc[q] \in Opening
  BY <1>1, ConstantsAssumption DEF AloneInv, SchemaInv, TypeOK, Opening
<1> QED BY <1>2 DEF AloneInv

\* Steps in which nobody comes to the database, or fails there.
LEMMA AloneFrame ==
    ASSUME AloneInv, SchemaInv', UNCHANGED <<version, tables, alone>>,
           \A q \in Procs : pc'[q] \in Opening \cup {"dbFailed"} =>
                              pc'[q] = pc[q] /\ pending'[q] = pending[q]
    PROVE  AloneInv'
<1>1. LoneStartSucceeds'
  BY DEF AloneInv, LoneStartSucceeds
<1>2. tables' \cap Once \subseteq 1..version'
  BY DEF AloneInv
<1>3. ASSUME NEW q \in Procs, alone'[q], pc'[q] \in Opening
      PROVE  /\ \A r \in Procs \ {q} : pc'[r] \notin Opening
             /\ pc'[q] = "tx" => pending'[q] \cap tables' \cap Once = {}
  BY <1>3 DEF AloneInv
<1> QED BY <1>1, <1>2, <1>3 DEF AloneInv

\* A process that comes to the database is alone if nobody is there, and nobody
\* who is there stays alone.
LEMMA AloneBegins ==
    ASSUME AloneInv, SchemaInv', NEW p \in Procs, OpenBegins(p),
           UNCHANGED <<version, tables, pending>>
    PROVE  AloneInv'
<1>0. pc \in [Procs -> Ended \cup Opening \cup {"load", "root", "client", "bind", "running"}]
  BY DEF AloneInv, SchemaInv, TypeOK
<1>1. pc'[p] = "open" /\ \A q \in Procs \ {p} : pc'[q] = pc[q]
  BY <1>0 DEF OpenBegins, Goto
<1>2. alone'[p] => \A r \in Procs \ {p} : pc[r] \notin Opening
  BY Zenon DEF OpenBegins
<1>3. \A q \in Procs \ {p} : alone'[q] => alone[q] /\ pc[q] \notin Opening
  BY Zenon DEF OpenBegins
<1>4. LoneStartSucceeds'
  BY <1>1, <1>3 DEF AloneInv, LoneStartSucceeds
<1>5. ASSUME NEW q \in Procs, alone'[q], pc'[q] \in Opening
      PROVE  /\ \A r \in Procs \ {q} : pc'[r] \notin Opening
             /\ pc'[q] = "tx" => pending'[q] \cap tables' \cap Once = {}
  BY <1>1, <1>2, <1>3, <1>5
<1> QED BY <1>4, <1>5 DEF AloneInv

\* Who is alone goes on within Database::open.
LEMMA AloneOpens ==
    ASSUME AloneInv, SchemaInv', NEW p \in Procs,
           Open(p) \/ PendingMigrations(p) \/ RunMigration(p)
    PROVE  AloneInv'
<1> USE DEF Opening
<1>0. /\ pc \in [Procs -> Ended \cup Opening \cup {"load", "root", "client", "bind", "running"}]
      /\ pending \in [Procs -> SUBSET Nat] /\ Length[p] \in Nat /\ version \in Nat
  BY ConstantsAssumption DEF AloneInv, SchemaInv, TypeOK, Shape
<1>1. /\ UNCHANGED <<version, tables, alone>> /\ pc[p] \in {"open", "pending", "tx"}
      /\ \A q \in Procs \ {p} : pc'[q] = pc[q] /\ pending'[q] = pending[q]
  BY <1>0 DEF Open, PendingMigrations, RunMigration, Goto, database
<1>2. pc'[p] = "dbFailed" => ~ alone[p]
  <2>1. pc'[p] = "dbFailed" => Busy(p)
    BY <1>0 DEF Open, PendingMigrations, RunMigration, Goto, Opened
  <2> QED BY <1>1, <2>1, BusyNotAlone
<1>3. alone[p] /\ pc'[p] = "tx" => pending'[p] \cap tables' \cap Once = {}
  <2>1. CASE Open(p)
    BY <1>0, <2>1 DEF Open, Goto
  <2>2. CASE PendingMigrations(p)
    <3>1. pending'[p] = {m \in Migrations(p) : m > version}
      BY <1>0, <2>2 DEF PendingMigrations
    <3>2. tables' \cap Once \subseteq 1..version
      BY <1>1 DEF AloneInv
    <3> QED BY <1>0, <3>1, <3>2
  <2>3. CASE RunMigration(p)
    <3>1. pending'[p] \subseteq pending[p] /\ pc[p] = "tx"
      BY <1>0, <2>3 DEF RunMigration
    <3> QED BY <1>1, <3>1 DEF AloneInv
  <2> QED BY <2>1, <2>2, <2>3
<1>4. LoneStartSucceeds'
  BY <1>1, <1>2 DEF AloneInv, LoneStartSucceeds
<1>5. ASSUME NEW q \in Procs, alone'[q], pc'[q] \in Opening
      PROVE  /\ \A r \in Procs \ {q} : pc'[r] \notin Opening
             /\ pc'[q] = "tx" => pending'[q] \cap tables' \cap Once = {}
  <2>1. \A r \in Procs : pc'[r] \in Opening => pc[r] \in Opening
    BY <1>1
  <2>2. \A r \in Procs \ {q} : pc[r] \notin Opening
    BY <1>1, <1>5, <2>1 DEF AloneInv
  <2>3. q # p => (pc'[q] = "tx" => pending'[q] \cap tables' \cap Once = {})
    BY <1>1, <1>5 DEF AloneInv
  <2> QED BY <1>1, <1>3, <1>5, <2>1, <2>2, <2>3
<1> QED BY <1>1, <1>4, <1>5 DEF AloneInv

\* A migration fails only for somebody who is not alone: what cannot be repeated and
\* is pending has not been applied, neither before nor in the transaction.
LEMMA AloneFails ==
    ASSUME AloneInv, SchemaInv', NEW p \in Procs, MigrationFails(p)
    PROVE  AloneInv'
<1>0. /\ pc \in [Procs -> Ended \cup Opening \cup {"load", "root", "client", "bind", "running"}]
      /\ pending \in [Procs -> SUBSET Nat] /\ tx[p].version \in Nat /\ Length[p] \in Nat
  BY ConstantsAssumption DEF AloneInv, SchemaInv, TypeOK, Shape
<1>1. /\ UNCHANGED <<version, tables, alone>> /\ pc[p] = "tx" /\ pc'[p] = "dbFailed"
      /\ \A q \in Procs \ {p} : pc'[q] = pc[q] /\ pending'[q] = pending[q]
  BY <1>0 DEF MigrationFails, Rollback, Goto
<1>2. ~ alone[p]
  <2>1. CASE Busy(p)
    BY <1>1, <2>1, BusyNotAlone DEF Opening
  <2>2. CASE ~ Busy(p)
    <3>1. PICK m \in pending[p] : m \in Once /\ m \in Sees(p).tables
      BY <2>2 DEF MigrationFails
    <3>2. m \in tables
      <4>1. CASE writer = p
        <5>1. PICK lo \in 1..Length[p] : Writes(p, lo)
          BY <4>1 DEF AloneInv, SchemaInv
        <5>2. m \in tables \cup lo..tx[p].version /\ m \in tx[p].version + 1 .. Length[p]
          BY <3>1, <4>1, <5>1 DEF Writes, Rest, Sees
        <5> QED BY <1>0, <5>1, <5>2
      <4>2. CASE writer # p
        BY <3>1, <4>2 DEF Sees
      <4> QED BY <4>1, <4>2
    <3> QED BY <1>1, <3>1, <3>2 DEF AloneInv, Opening
  <2> QED BY <2>1, <2>2
<1>3. LoneStartSucceeds'
  BY <1>1, <1>2 DEF AloneInv, LoneStartSucceeds
<1>4. ASSUME NEW q \in Procs, alone'[q], pc'[q] \in Opening
      PROVE  /\ \A r \in Procs \ {q} : pc'[r] \notin Opening
             /\ pc'[q] = "tx" => pending'[q] \cap tables' \cap Once = {}
  BY <1>1, <1>2, <1>4 DEF AloneInv, Opening
<1> QED BY <1>1, <1>3, <1>4 DEF AloneInv

\* A commit brings the version past all that cannot be repeated.
LEMMA AloneCommits ==
    ASSUME AloneInv, SchemaInv', NEW p \in Procs, Commit(p)
    PROVE  AloneInv'
<1>0. pc \in [Procs -> Ended \cup Opening \cup {"load", "root", "client", "bind", "running"}]
  BY DEF AloneInv, SchemaInv, TypeOK
<1>1. /\ UNCHANGED <<alone, pending>> /\ pc[p] \in Opening
      /\ pc'[p] \notin Opening \cup {"dbFailed"} /\ \A q \in Procs \ {p} : pc'[q] = pc[q]
  BY <1>0 DEF Commit, Opened, Goto, Opening
<1>2. version' = Length[p]
  BY CommitsWhole DEF Commit, AloneInv
<1>3. tables' \cap Once \subseteq 1..version'
  BY <1>2, ConstantsAssumption
<1>4. LoneStartSucceeds'
  BY <1>1 DEF AloneInv, LoneStartSucceeds
<1>5. \A q \in Procs : pc'[q] \in Opening => ~ alone'[q]
  BY <1>1 DEF AloneInv
<1> QED BY <1>3, <1>4, <1>5 DEF AloneInv

\* AloneInv is inductive.
LEMMA AloneStep == ASSUME AloneInv, [Next]_vars PROVE AloneInv'
<1>0. SchemaInv'
  BY SchemaStep DEF AloneInv
<1>1. pc \in [Procs -> Ended \cup Opening \cup {"load", "root", "client", "bind", "running"}]
      /\ pending \in [Procs -> SUBSET Nat]
  BY DEF AloneInv, SchemaInv, TypeOK, Shape
<1> USE <1>0, <1>1 DEF database, cfg, Goto
<1>2. CASE \/ \E c \in Configs : SaveBegin(c)
           \/ \E d \in Documents \cup {Absent} : Edit(d)
           \/ SaveEnds \/ create_directories \/ UNCHANGED vars
  BY <1>2, AloneFrame DEF SaveBegin, Edit, SaveEnds, create_directories, vars
<1>3. ASSUME NEW p \in Procs, Start(p) PROVE AloneInv'
  <2>1. CASE OpenBegins(p)
    BY <1>3, <2>1, AloneBegins DEF Start
  <2>2. CASE Goto(p, "load") /\ UNCHANGED alone
    BY <1>3, <2>2, AloneFrame DEF Start, Opening
  <2> QED BY <1>3, <2>1, <2>2 DEF Start
<1>4. ASSUME NEW p \in Procs, Kill(p) PROVE AloneInv'
  BY <1>4, AloneFrame DEF Kill, Rollback, Opening
<1>5. ASSUME NEW p \in Daemons, EnsureRoot(p) PROVE AloneInv'
  <2>0. p \in Procs
    BY ConstantsAssumption
  <2>1. CASE OpenBegins(p)
    BY <1>5, <2>0, <2>1, AloneBegins DEF EnsureRoot
  <2>2. CASE Goto(p, "exited") /\ UNCHANGED alone
    BY <1>5, <2>0, <2>2, AloneFrame DEF EnsureRoot, Opening
  <2> QED BY <1>5, <2>1, <2>2 DEF EnsureRoot
<1>6. ASSUME NEW p \in Daemons, LoadConfig(p) \/ CreateClient(p) \/ BindServer(p)
      PROVE  AloneInv'
  BY <1>6, AloneFrame, ConstantsAssumption DEF LoadConfig, CreateClient, BindServer, Opening
<1> QED BY <1>2, <1>3, <1>4, <1>5, <1>6, AloneOpens, AloneFails, AloneCommits DEF Next

-----------------------------------------------------------------------------
(* The configuration.                                                      *)

\* Steps that leave the file and what has been loaded alone.
LEMMA ConfigFrame ==
    ASSUME ConfigInv, TypeOK', Shape',
           UNCHANGED <<file, saving, config, intended, expected, clean>>,
           \A p \in Daemons : pc'[p] \in Loaded => pc[p] \in Loaded
    PROVE  ConfigInv'
BY DEF ConfigInv

\* Steps of the configuration file: it loads as what was put in place.
LEMMA ConfigFile ==
    ASSUME ConfigInv, TypeOK', Shape',
           \/ \E c \in Configs : SaveBegin(c)
           \/ \E d \in Documents \cup {Absent} : Edit(d)
           \/ SaveEnds
    PROVE  ConfigInv'
<1>1. UNCHANGED <<pc, config, expected, clean>>
  BY DEF SaveBegin, Edit, SaveEnds
<1>2. saving' = Error /\ intended' # Error /\ Loads(file') # Error => Loads(file') = intended'
  <2>1. ASSUME NEW c \in Configs, SaveBegin(c) PROVE saving' # Error
    BY <2>1, ParsedFields, NoConfig DEF SaveBegin
  <2>2. ASSUME NEW d, Edit(d), Loads(file') # Error PROVE Loads(file') = intended'
    BY <2>2 DEF Edit, Loads
  <2>3. ASSUME SaveEnds, intended' # Error, Loads(file') # Error PROVE Loads(file') = intended'
    <3>1. saving \in Configs /\ file' = saving /\ intended' = saving
      BY <2>3 DEF SaveEnds, ConfigInv, TypeOK
    <3>2. Parsed(saving) = saving /\ saving # Absent
      BY <3>1, ParsedFields, NoConfig
    <3> QED BY <2>3, <3>1, <3>2 DEF Loads
  <2> QED BY <2>1, <2>2, <2>3
<1> QED BY <1>1, <1>2 DEF ConfigInv

\* A daemon that loads its configuration loads what was put in place.
LEMMA ConfigLoads ==
    ASSUME ConfigInv, TypeOK', Shape', NEW p \in Daemons, LoadConfig(p)
    PROVE  ConfigInv'
<1>0. p \in Procs /\ TypeOK /\ Shape
  BY ConstantsAssumption DEF ConfigInv
<1>1. UNCHANGED <<file, saving, intended>>
  BY DEF LoadConfig
<1>2. \A q \in Daemons \ {p} : /\ pc'[q] = pc[q] /\ config'[q] = config[q]
                              /\ expected'[q] = expected[q] /\ clean'[q] = clean[q]
  BY <1>0, ConstantsAssumption DEF LoadConfig, Goto, TypeOK, Shape
<1>3. ASSUME pc'[p] \in Loaded
      PROVE  validate(config'[p]) /\ (clean'[p] => config'[p] = expected'[p])
  <2>1. Loads(file) # Error
    BY <1>0, <1>3 DEF LoadConfig, Goto, TypeOK, Loaded, Opening
  <2>2. config'[p] = Loads(file) /\ expected'[p] = intended
    BY <1>0, <2>1 DEF LoadConfig, Shape
  <2>3. clean'[p] => saving = Error /\ intended # Error
    BY <1>0, Zenon DEF LoadConfig, Shape
  <2>4. validate(Loads(file))
    BY <2>1, LoadsValid
  <2>5. clean'[p] => Loads(file) = intended
    BY <2>1, <2>3 DEF ConfigInv
  <2> QED BY <2>2, <2>4, <2>5
<1> QED BY <1>1, <1>2, <1>3 DEF ConfigInv

\* ConfigInv is inductive.
LEMMA ConfigStep == ASSUME ConfigInv, [Next]_vars PROVE ConfigInv'
<1>0. TypeOK' /\ Shape'
  BY NextType DEF ConfigInv
<1>1. pc \in [Procs -> Ended \cup Opening \cup {"load", "root", "client", "bind", "running"}]
      /\ Daemons \subseteq Procs
  BY ConstantsAssumption DEF ConfigInv, TypeOK
<1> USE <1>0, <1>1 DEF database, cfg, Goto, Loaded, Opening
<1>2. CASE create_directories \/ UNCHANGED vars
  BY <1>2, ConfigFrame DEF create_directories, vars
<1>3. ASSUME NEW p \in Procs, Start(p) PROVE ConfigInv'
  BY <1>3, ConfigFrame DEF Start, OpenBegins
<1>4. ASSUME NEW p \in Procs, Kill(p) \/ MigrationFails(p) PROVE ConfigInv'
  BY <1>4, ConfigFrame DEF Kill, MigrationFails
<1>5. ASSUME NEW p \in Procs, Open(p) \/ PendingMigrations(p) \/ RunMigration(p) \/ Commit(p)
      PROVE  ConfigInv'
  BY <1>5, ConfigFrame DEF Open, PendingMigrations, RunMigration, Commit
<1>6. ASSUME NEW p \in Daemons, EnsureRoot(p) \/ CreateClient(p) \/ BindServer(p)
      PROVE  ConfigInv'
  BY <1>6, ConfigFrame DEF EnsureRoot, OpenBegins, CreateClient, BindServer
<1> QED BY <1>2, <1>3, <1>4, <1>5, <1>6, ConfigFile, ConfigLoads DEF Next

-----------------------------------------------------------------------------
(* Theorems.                                                               *)

\* The variables keep their types, for any processes, lists and documents; and the
\* write lock is held by a process within migrate, whenever one has to commit.
THEOREM TypeCorrect == Spec => []TypeOK
<1>1. Init => TypeOK /\ Shape
  BY InitType
<1>2. TypeOK /\ Shape /\ [Next]_vars => (TypeOK /\ Shape)'
  BY NextType
<1> QED BY <1>1, <1>2, PTL DEF Spec

\* The opens of any processes, with lists of any lengths, killed anywhere, implement
\* Schema: the database goes from one whole schema to another.
THEOREM Refinement == Spec => MigratesWhole
<1>1. Init => SchemaInv /\ S!Init
  BY InitType, ConstantsAssumption DEF Init, SchemaInv, S!Init
<1>2. SchemaInv /\ [Next]_vars => SchemaInv'
  BY SchemaStep
<1>3. SchemaInv /\ [Next]_vars => [S!Next]_<<version, tables>>
  <2> SUFFICES ASSUME SchemaInv, [Next]_vars PROVE [S!Next]_<<version, tables>>
    OBVIOUS
  <2>1. ASSUME NEW p \in Procs, Commit(p) PROVE S!Next
    <3>1. PICK lo \in 1..Length[p] : Writes(p, lo) /\ tx[p].version = Length[p]
      BY <2>1, CommitsWhole DEF Commit
    <3>2. S!Migrate(lo, Length[p])
      BY <2>1, <3>1 DEF Commit, Writes, S!Migrate
    <3> QED BY <3>1, <3>2 DEF S!Next
  <2> QED BY <2>1, OnlyCommit
<1> QED BY <1>1, <1>2, <1>3, PTL DEF Spec, MigratesWhole, S!Spec

\* Every process to which Database::open has returned has all tables of its list, for
\* any processes and lists, however their opens interleave and whoever is killed.
THEOREM OpenedSafety == Spec => []OpenedMeansMigrated
<1>1. Init => OpenedInv
  BY InitType, ConstantsAssumption DEF Init, OpenedInv, SchemaInv, OpenedMeansMigrated
<1>2. OpenedInv /\ [Next]_vars => OpenedInv'
  <2> SUFFICES ASSUME OpenedInv, [Next]_vars PROVE OpenedInv'
    OBVIOUS
  <2>1. SchemaInv /\ SchemaInv'
    BY SchemaStep DEF OpenedInv
  <2>2. ASSUME NEW p \in Procs, pc'[p] \in {"client", "bind", "running"}
        PROVE  Migrations(p) \subseteq tables'
    <3>1. CASE pc[p] \in {"client", "bind", "running"}
      BY <2>1, <3>1, TablesGrow DEF OpenedInv, OpenedMeansMigrated
    <3>2. CASE pc[p] \notin {"client", "bind", "running"}
      BY <2>1, <2>2, <3>2, OnlyMigrate, MigrateApplies
    <3> QED BY <3>1, <3>2
  <2> QED BY <2>1, <2>2 DEF OpenedInv, OpenedMeansMigrated, Migrations
<1>3. OpenedInv => OpenedMeansMigrated
  BY DEF OpenedInv
<1> QED BY <1>1, <1>2, <1>3, PTL DEF Spec

\* A process that is alone in opening the database succeeds, whatever kills, failures
\* and races have left there, for any lists that begin with what cannot be repeated.
THEOREM LoneStartSafety == Spec => []LoneStartSucceeds
<1>1. Init => AloneInv
  BY InitType, ConstantsAssumption
     DEF Init, AloneInv, SchemaInv, LoneStartSucceeds, Opening
<1>2. AloneInv /\ [Next]_vars => AloneInv'
  BY AloneStep
<1>3. AloneInv => LoneStartSucceeds
  BY DEF AloneInv
<1> QED BY <1>1, <1>2, <1>3, PTL DEF Spec

\* A daemon runs with valid settings, and with those last put in place unless it
\* started during a save or after a broken one, for any documents and settings.
THEOREM ConfigSafety == Spec => []RunsAsConfigured
<1>1. Init => ConfigInv
  <2>1. Init => Loads(file) = intended
    BY DEF Init, Loads
  <2>2. Init => \A p \in Daemons : pc[p] \notin Loaded
    BY ConstantsAssumption DEF Init, Loaded, Opening
  <2> QED BY <2>1, <2>2, InitType DEF ConfigInv
<1>2. ConfigInv /\ [Next]_vars => ConfigInv'
  BY ConfigStep
<1>3. ConfigInv => RunsAsConfigured
  BY DEF ConfigInv, RunsAsConfigured, Loaded
<1> QED BY <1>1, <1>2, <1>3, PTL DEF Spec

-----------------------------------------------------------------------------
(* The tables.                                                             *)

\* The names of the states in the database are different.
LEMMA StateNamesDiffer ==
    ASSUME NEW s \in FileState, NEW u \in FileState, StateName(s) = StateName(u)
    PROVE  s = u
BY DEF FileState, StateName

\* A File and its row.
LEMMA ToRowIs ==
    ASSUME NEW f \in FilesIn(States)
    PROVE  /\ ToRow(f) \in FilesIn({StateName(s) : s \in States})
           /\ ToRow(f).account = f.account /\ ToRow(f).file = f.file /\ ToRow(f).path = f.path
           /\ FileOfRow(ToRow(f)).state = f.state
<1>1. f.state \in States /\ States \subseteq FileState
  BY DEF FilesIn, States, FileState
<1>2. /\ ToRow(f) \in FilesIn({StateName(s) : s \in States})
      /\ ToRow(f).account = f.account /\ ToRow(f).file = f.file /\ ToRow(f).path = f.path
      /\ ToRow(f).state = StateName(f.state)
  BY <1>1 DEF FilesIn, ToRow
<1>3. (CHOOSE s \in FileState : StateName(s) = StateName(f.state)) = f.state
  BY <1>1, StateNamesDiffer
<1>4. FileOfRow(ToRow(f)).state = f.state
  BY <1>2, <1>3 DEF FileOfRow, FilesIn
<1> QED BY <1>2, <1>4

\* A row and the File that is read from it.
LEMMA FileOfRowIs ==
    ASSUME NEW row \in FilesIn({StateName(s) : s \in States})
    PROVE  /\ FileOfRow(row) \in FilesIn(States)
           /\ FileOfRow(row).account = row.account /\ FileOfRow(row).file = row.file
           /\ FileOfRow(row).path = row.path
<1>1. PICK u \in States : row.state = StateName(u)
  BY DEF FilesIn
<1>2. States \subseteq FileState
  BY DEF States, FileState
<1>3. (CHOOSE s \in FileState : StateName(s) = row.state) = u
  BY <1>1, <1>2, StateNamesDiffer
<1> QED BY <1>3 DEF FileOfRow, FilesIn

\* What a statement on the files leaves of the tables.
LEMMA FileStatements ==
    ASSUME NEW d, DOMAIN d = {"accounts", "files", "cursors", "next"}, NEW id, NEW f
    PROVE  /\ DOMAIN create_file(d, f) = DOMAIN d
           /\ create_file(d, f).accounts = d.accounts
           /\ create_file(d, f).cursors = d.cursors
           /\ create_file(d, f).next = d.next + 1
           /\ create_file(d, f).files = With(d.files, d.next, ToRow(f))
           /\ DOMAIN delete_file(d, id) = DOMAIN d
           /\ delete_file(d, id).accounts = d.accounts
           /\ delete_file(d, id).cursors = d.cursors
           /\ delete_file(d, id).next = d.next
           /\ delete_file(d, id).files = Without(d.files, {id})
BY DEF create_file, delete_file

\* ... and update_file, whether the row is there or not.
LEMMA UpdateStatement ==
    ASSUME NEW d, DOMAIN d = {"accounts", "files", "cursors", "next"}, NEW id, NEW f
    PROVE  /\ DOMAIN update_file(d, id, f) = DOMAIN d
           /\ update_file(d, id, f).accounts = d.accounts
           /\ update_file(d, id, f).cursors = d.cursors
           /\ update_file(d, id, f).next = d.next
           /\ id \notin DOMAIN d.files => update_file(d, id, f).files = d.files
           /\ id \in DOMAIN d.files => update_file(d, id, f).files = [d.files EXCEPT ![id] = ToRow(f)]
BY DEF update_file

\* What a statement on the accounts leaves of the tables.
LEMMA AccountStatements ==
    ASSUME NEW d, DOMAIN d = {"accounts", "files", "cursors", "next"}, NEW id, NEW a
    PROVE  /\ DOMAIN create_account(d, id, a) = DOMAIN d
           /\ create_account(d, id, a).accounts = With(d.accounts, id, a)
           /\ create_account(d, id, a).files = d.files
           /\ create_account(d, id, a).cursors = d.cursors
           /\ create_account(d, id, a).next = d.next
           /\ DOMAIN update_account(d, id, a) = DOMAIN d
           /\ DOMAIN update_account(d, id, a).accounts = DOMAIN d.accounts
           /\ update_account(d, id, a).files = d.files
           /\ update_account(d, id, a).cursors = d.cursors
           /\ update_account(d, id, a).next = d.next
BY DEF create_account, update_account, HasAccount

\* ... and one on the cursors.
LEMMA DeleteCursorStatement ==
    ASSUME NEW d, DOMAIN d = {"accounts", "files", "cursors", "next"}, NEW id
    PROVE  /\ DOMAIN delete_cursor(d, id) = DOMAIN d
           /\ delete_cursor(d, id).accounts = d.accounts
           /\ delete_cursor(d, id).files = d.files
           /\ delete_cursor(d, id).cursors = Without(d.cursors, {id})
           /\ delete_cursor(d, id).next = d.next
BY DEF delete_cursor

-----------------------------------------------------------------------------
(* The handler: what requests and jobs are about.                          *)

\* An action that goes to the sync loop.
LEMMA ForceAction ==
    ASSUME NEW a \in AccountIds, NEW p \in Locals, resolve_local(SyncRoot, p).inside
    PROVE  [kind |-> "Force", account |-> a, path |-> resolve_local(SyncRoot, p).cloud_path] \in DaemonAction
BY DEF DaemonAction

\* ... also of a provider that is not known.
LEMMA PauseAction ==
    ASSUME NEW kind \in {"Pause", "Resume"}, NEW slug
    PROVE  [kind |-> kind, provider |-> from_slug(slug)] \in DaemonAction
<1> DEFINE found == {p \in ProviderId : as_str(p) = slug}
<1>1. from_slug(slug) = IF found = {} THEN "None" ELSE CHOOSE p \in found : TRUE
  BY DEF from_slug
<1>2. found # {} => (CHOOSE p \in found : TRUE) \in found
  OBVIOUS
<1>3. from_slug(slug) \in ProviderId \cup {"None"}
  BY <1>1, <1>2
<1> QED BY <1>3 DEF DaemonAction

\* send_action keeps the channel to such actions, with or without a receiver.
LEMMA SentOK ==
    ASSUME sent \subseteq DaemonAction, NEW a \in DaemonAction, send_action(a)
    PROVE  sent' \subseteq DaemonAction
BY DEF send_action

\* What resolve_and_lookup returns: an error, or an account and a path below the root.
LEMMA Resolved ==
    ASSUME JobsInv, NEW local
    PROVE  LET r == resolve_and_lookup(local) IN
           /\ r.error \in Errors \cup {"none"}
           /\ r.error = "none" => /\ resolve_local(SyncRoot, local).inside
                                  /\ r.account \in AccountIds
                                  /\ r.cloud_path = resolve_local(SyncRoot, local).cloud_path
<1> DEFINE found == lookup_account(resolve_local(SyncRoot, local).provider_slug)
<1>1. found \subseteq AccountIds
  BY DEF JobsInv, lookup_account, FirstAt
<1>2. found # {} => (CHOOSE a \in found : TRUE) \in found
  OBVIOUS
<1> HIDE DEF found
<1>3. resolve_and_lookup(local) =
        IF ~ resolve_local(SyncRoot, local).inside THEN [error |-> "outside sync root"]
        ELSE IF found = {} THEN [error |-> "unknown provider"]
        ELSE [error |-> "none", account |-> CHOOSE a \in found : TRUE,
              cloud_path |-> resolve_local(SyncRoot, local).cloud_path]
  BY DEF resolve_and_lookup, found
<1>4. CASE ~ resolve_local(SyncRoot, local).inside
  <2> DEFINE refusal == [error |-> "outside sync root"]
  <2>1. refusal.error = "outside sync root"
    OBVIOUS
  <2>2. resolve_and_lookup(local) = refusal
    BY <1>3, <1>4, Zenon
  <2> HIDE DEF refusal
  <2>3. resolve_and_lookup(local).error = "outside sync root"
    BY <2>1, <2>2
  <2>4. "outside sync root" \in Errors /\ "outside sync root" # "none"
    BY DEF Errors
  <2> QED BY <2>3, <2>4, Zenon
<1>5. CASE resolve_local(SyncRoot, local).inside /\ found = {}
  <2> DEFINE refusal == [error |-> "unknown provider"]
  <2>1. refusal.error = "unknown provider"
    OBVIOUS
  <2>2. resolve_and_lookup(local) = refusal
    BY <1>3, <1>5, Zenon
  <2> HIDE DEF refusal
  <2>3. resolve_and_lookup(local).error = "unknown provider"
    BY <2>1, <2>2
  <2>4. "unknown provider" \in Errors /\ "unknown provider" # "none"
    BY DEF Errors
  <2> QED BY <2>3, <2>4, Zenon
<1>6. CASE resolve_local(SyncRoot, local).inside /\ found # {}
  <2>1. resolve_and_lookup(local) =
          [error |-> "none", account |-> CHOOSE a \in found : TRUE,
           cloud_path |-> resolve_local(SyncRoot, local).cloud_path]
    BY <1>3, <1>6, Zenon
  <2>2. (CHOOSE a \in found : TRUE) \in AccountIds
    BY <1>1, <1>2, <1>6
  <2>3. resolve_local(SyncRoot, local).inside
    BY <1>6
  <2> QED BY <2>1, <2>2, <2>3
<1> QED BY <1>4, <1>5, <1>6

\* A job of the change feed.
LEMMA FeedJob ==
    ASSUME NEW j \in ApplyChange
    PROVE  /\ j.op \in {"upsert", "delete"} /\ j.file \in FileIds
           /\ j.op = "upsert" => j.path \in Paths
BY DEF ApplyChange, FileIds, Paths

\* A file of a table that is listed for a select.
LEMMA RowsExist ==
    ASSUME NEW a, NEW x
    PROVE  RowsOfFile(db, a, x) \subseteq DOMAIN db.files /\ RowsAtPath(db, a, x) \subseteq DOMAIN db.files
BY DEF RowsOfFile, RowsAtPath

\* The paths of a request that are left after an answer.
LEMMA RestOfPaths ==
    ASSUME NEW todo \in Seq(Locals) \ {<<>>}
    PROVE  Head(todo) \in Locals /\ Tail(todo) \in Seq(Locals)
OBVIOUS

\* An answer ends the request or goes on to its next path.
LEMMA Answered ==
    ASSUME LocksOK, JobsInv, AnswersOK, NEW t \in DaemonTasks, stage[t] # "idle",
           NEW a \in States \cup Errors \cup {"Ok"}, Answer(t, a)
    PROVE  /\ reply' \in [DaemonTasks -> States \cup Errors \cup {"none", "Ok", "Error"}]
           /\ DOMAIN job' = Tasks /\ \A u \in Tasks \ {t} : job'[u] = job[u]
           /\ \E l \in {"idle", "resolve"} :
                /\ stage' = [stage EXCEPT ![t] = l]
                /\ l = "resolve" => job'[t].todo \in Seq(Locals) \ {<<>>}
<1> DEFINE rest == Tail(job[t].todo)
           shown == IF job[t].op = "GetStatusBatch" /\ a \in Errors THEN "Error" ELSE a
<1>1. rest \in Seq(Locals)
  BY RestOfPaths DEF JobsInv
<1>2. /\ reply' = [reply EXCEPT ![t] = shown]
      /\ job' = [job EXCEPT ![t] = IF rest = <<>> THEN Idle ELSE [op |-> job[t].op, todo |-> rest]]
      /\ stage' = [stage EXCEPT ![t] = IF rest = <<>> THEN "idle" ELSE "resolve"]
  BY DEF Answer, Enter
<1>3. shown \in States \cup Errors \cup {"Ok", "Error"}
  OBVIOUS
<1> HIDE DEF rest, shown
<1>4. reply' \in [DaemonTasks -> States \cup Errors \cup {"none", "Ok", "Error"}]
  BY <1>2, <1>3 DEF AnswersOK
<1>5. t \in Tasks /\ DOMAIN job' = Tasks /\ \A u \in Tasks \ {t} : job'[u] = job[u]
  BY <1>2 DEF JobsInv, Tasks
<1>6. CASE rest = <<>>
  BY <1>2, <1>4, <1>5, <1>6
<1>7. CASE rest # <<>>
  <2>1. job'[t].todo = rest
    BY <1>2, <1>5, <1>7 DEF JobsInv
  <2> QED BY <1>1, <1>2, <1>4, <1>5, <1>7, <2>1
<1> QED BY <1>6, <1>7

-----------------------------------------------------------------------------
(* The handler: what every step does to the invariant.                     *)

\* A step of a task that neither is in a closure nor enters one.
LEMMA QuietStep ==
    ASSUME HandlerInv, NEW t \in Tasks, stage[t] # "write",
           NEW l \in {"idle", "resolve", "select"}, stage' = [stage EXCEPT ![t] = l],
           \A u \in Tasks \ {t} : job'[u] = job[u],
           UNCHANGED <<db, mutex, copy, meant, mixed>>
    PROVE  TablesOK' /\ LocksOK' /\ OrphansInv' /\ UpdateInv'
<1>1. /\ stage'[t] = l /\ l # "write"
      /\ \A u \in Tasks \ {t} : stage'[u] = stage[u]
      /\ stage' \in [Tasks -> {"idle", "resolve", "select", "write"}]
  BY DEF HandlerInv, HandlerTypeOK, LocksOK
<1>2. TablesOK'
  BY DEF HandlerInv, HandlerTypeOK, TablesOK
<1>3. LocksOK'
  BY <1>1 DEF HandlerInv, HandlerTypeOK, LocksOK
<1>4. OrphansInv'
  BY <1>1 DEF HandlerInv, OrphansInv, NoOrphans
<1>5. UpdateInv'
  BY <1>1 DEF HandlerInv, UpdateInv, NoLostUpdate
<1> QED BY <1>2, <1>3, <1>4, <1>5

\* What is left of JobsInv to be shown of a step of a task: what it is to do then.
LEMMA JobsStep ==
    ASSUME HandlerInv, NEW t \in Tasks,
           NEW l \in {"idle", "resolve", "select", "write"}, stage' = [stage EXCEPT ![t] = l],
           DOMAIN job' = Tasks, \A u \in Tasks \ {t} : job'[u] = job[u],
           DOMAIN copy' = Tasks, account' \in [DaemonTasks -> AccountIds], snapshot' = snapshot,
           t \in DaemonTasks /\ l # "idle" =>
            /\ job'[t].todo \in Seq(Locals) \ {<<>>}
            /\ l # "resolve" => resolve_local(SyncRoot, Head(job'[t].todo)).inside,
           t \in MountTasks =>
            /\ l # "resolve"
            /\ l # "idle" => /\ job'[t].op \in {"upsert", "delete", "state"}
                             /\ job'[t].file \in FileIds
                             /\ job'[t].op = "upsert" => job'[t].path \in Paths
                             /\ job'[t].op = "state" => job'[t].state \in States
    PROVE  JobsInv'
<1>1. stage'[t] = l /\ \A u \in Tasks \ {t} : stage'[u] = stage[u]
  BY DEF HandlerInv, HandlerTypeOK, LocksOK
<1>2. DaemonTasks \subseteq Tasks /\ MountTasks \subseteq Tasks
  BY DEF Tasks
<1>3. ASSUME NEW u \in DaemonTasks, stage'[u] # "idle"
      PROVE  /\ job'[u].todo \in Seq(Locals) \ {<<>>}
             /\ stage'[u] # "resolve" => resolve_local(SyncRoot, Head(job'[u].todo)).inside
  <2>1. CASE u = t
    BY <1>1, <1>3, <2>1, Zenon
  <2>2. CASE u # t
    <3>1. stage'[u] = stage[u] /\ job'[u] = job[u]
      BY <1>1, <1>2, <2>2
    <3> QED BY <1>3, <3>1 DEF HandlerInv, JobsInv
  <2> QED BY <2>1, <2>2
<1>4. ASSUME NEW u \in MountTasks
      PROVE  /\ stage'[u] # "resolve"
             /\ stage'[u] # "idle" => /\ job'[u].op \in {"upsert", "delete", "state"}
                                      /\ job'[u].file \in FileIds
                                      /\ job'[u].op = "upsert" => job'[u].path \in Paths
                                      /\ job'[u].op = "state" => job'[u].state \in States
  <2>1. CASE u = t
    BY <1>1, <2>1, Zenon
  <2>2. CASE u # t
    <3>1. stage'[u] = stage[u] /\ job'[u] = job[u]
      BY <1>1, <1>2, <2>2
    <3> QED BY <3>1 DEF HandlerInv, JobsInv
  <2> QED BY <2>1, <2>2
<1>5. \A i \in DOMAIN snapshot' : snapshot'[i].account \in AccountIds
  BY DEF HandlerInv, JobsInv
<1> QED BY <1>3, <1>4, <1>5 DEF JobsInv

\* An answer without a write.
LEMMA AnswerStep ==
    ASSUME HandlerInv, NEW t \in DaemonTasks, stage[t] \in {"resolve", "select"},
           NEW a \in States \cup Errors \cup {"Ok"}, Answer(t, a), sent' \subseteq DaemonAction,
           UNCHANGED <<db, snapshot, mutex, account, copy, meant, mixed>>
    PROVE  HandlerInv'
<1>1. t \in Tasks /\ LocksOK /\ JobsInv /\ AnswersOK
  BY DEF Tasks, HandlerInv, HandlerTypeOK
<1>2. /\ reply' \in [DaemonTasks -> States \cup Errors \cup {"none", "Ok", "Error"}]
      /\ DOMAIN job' = Tasks /\ \A u \in Tasks \ {t} : job'[u] = job[u]
  BY <1>1, Answered
<1>3. PICK l \in {"idle", "resolve"} :
        /\ stage' = [stage EXCEPT ![t] = l]
        /\ l = "resolve" => job'[t].todo \in Seq(Locals) \ {<<>>}
  BY <1>1, Answered
<1>4. TablesOK' /\ LocksOK' /\ OrphansInv' /\ UpdateInv'
  BY <1>1, <1>2, <1>3, QuietStep
<1>5. JobsInv'
  <2>1. t \notin MountTasks
    BY HandlerAssumption
  <2>2. DOMAIN copy' = Tasks /\ account' \in [DaemonTasks -> AccountIds]
    BY <1>1 DEF JobsInv
  <2> QED BY <1>1, <1>2, <1>3, <2>1, <2>2, JobsStep
<1> QED BY <1>2, <1>4, <1>5 DEF HandlerInv, HandlerTypeOK, AnswersOK

\* A closure has read a row and goes on to write it, or to insert one.
LEMMA ReadStep ==
    ASSUME HandlerInv, NEW t \in Tasks, stage[t] = "select",
           NEW id, NEW row \in FilesIn(States), ReadToWrite(t, id, row),
           UNCHANGED <<db, job, meant>>,
           \/ id = 0
           \/ /\ id \in DOMAIN db.files
              /\ db.files[id].account = row.account /\ db.files[id].file = row.file
              /\ t \in DaemonTasks \/ job[t].op = "state" => row.path = db.files[id].path
              /\ t \in MountTasks /\ job[t].op = "state" => row.state = job[t].state
              /\ t \in MountTasks /\ job[t].op = "upsert" =>
                    row.path = job[t].path /\ row.state = FileOfRow(db.files[id]).state
    PROVE  TablesOK' /\ LocksOK' /\ OrphansInv' /\ UpdateInv' /\ DOMAIN copy' = Tasks
           /\ stage' = [stage EXCEPT ![t] = "write"]
<1>0. TablesOK /\ LocksOK /\ OrphansInv /\ JobsInv /\ UpdateInv
  BY DEF HandlerInv, HandlerTypeOK
<1>1. /\ mutex[Process(t)] = Free /\ mutex' = [mutex EXCEPT ![Process(t)] = t]
      /\ copy' = [copy EXCEPT ![t] = [id |-> id, row |-> row]]
      /\ stage' = [stage EXCEPT ![t] = "write"]
  BY DEF ReadToWrite, Locked, Enter
<1>2. mixed' = mixed \cup {r \in {id} : \E u \in Tasks : Process(u) # Process(t) /\ copy[u].id = r}
  BY DEF ReadToWrite
<1>3. /\ stage'[t] = "write" /\ \A u \in Tasks \ {t} : stage'[u] = stage[u]
      /\ copy'[t].id = id /\ copy'[t].row = row
      /\ \A u \in Tasks \ {t} : copy'[u] = copy[u]
      /\ DOMAIN copy' = Tasks
  BY <1>0, <1>1 DEF LocksOK, JobsInv
<1>4. \A u \in Tasks : Process(u) \in {"daemon", "mount"}
  BY DEF Process
<1>5. LocksOK'
  <2>1. stage' \in [Tasks -> {"idle", "resolve", "select", "write"}]
    BY <1>0, <1>1 DEF LocksOK
  <2>2. mutex' \in [{"daemon", "mount"} -> Tasks \cup {Free}]
    BY <1>0, <1>1 DEF LocksOK
  <2>3. ASSUME NEW u \in Tasks PROVE stage'[u] = "write" <=> mutex'[Process(u)] = u
    <3>1. CASE u = t
      BY <1>0, <1>1, <1>3, <1>4, <3>1 DEF LocksOK
    <3>2. CASE u # t /\ Process(u) = Process(t)
      BY <1>0, <1>1, <1>3, <1>4, <3>2, HandlerAssumption DEF LocksOK
    <3>3. CASE Process(u) # Process(t)
      BY <1>0, <1>1, <1>3, <1>4, <3>3 DEF LocksOK
    <3> QED BY <3>1, <3>2, <3>3
  <2> QED BY <2>1, <2>2, <2>3 DEF LocksOK
<1>6. TablesOK'
  BY <1>0 DEF TablesOK
<1>7. id \in 0..(db.next - 1) /\ 0 \notin DOMAIN db.files
  BY <1>0 DEF TablesOK
<1>8. OrphansInv'
  <2>1. NoOrphans'
    BY <1>0 DEF OrphansInv, NoOrphans
  <2>2. \A u \in Tasks : stage'[u] # "write" => copy'[u].id = 0
    BY <1>0, <1>3 DEF OrphansInv
  <2>3. ASSUME NEW u \in Tasks, stage'[u] = "write"
        PROVE  /\ copy'[u].row \in FilesIn(States)
               /\ copy'[u].id \in 0..(db'.next - 1)
               /\ copy'[u].id \in DOMAIN db'.files =>
                    /\ db'.files[copy'[u].id].account = copy'[u].row.account
                    /\ db'.files[copy'[u].id].file = copy'[u].row.file
    <3>1. CASE u = t
      BY <1>3, <1>7, <3>1
    <3>2. CASE u # t
      BY <1>0, <1>3, <2>3, <3>2 DEF OrphansInv
    <3> QED BY <3>1, <3>2
  <2> QED BY <2>1, <2>2, <2>3 DEF OrphansInv
\* no other task has read the row, unless it is mixed
<1>9. ASSUME NEW u \in Tasks \ {t}, copy[u].id = id, id # 0 PROVE id \in mixed'
  <2>1. stage[u] = "write"
    BY <1>0, <1>9 DEF OrphansInv
  <2>2. mutex[Process(u)] = u
    BY <1>0, <2>1 DEF LocksOK
  <2>3. Process(u) # Process(t)
    BY <1>1, <2>2, HandlerAssumption
  <2> QED BY <1>2, <1>9, <2>3
<1>10. mixed \subseteq mixed'
  BY <1>2
<1>11. UpdateInv'
  <2>1. meant' \in [DOMAIN db'.files -> [path : Paths, state : States]]
    BY <1>0 DEF UpdateInv
  <2>2. NoLostUpdate'
    BY <1>0, <1>10 DEF UpdateInv, NoLostUpdate
  <2>3. ASSUME NEW u \in Tasks, NEW v \in Tasks, copy'[u].id = copy'[v].id,
               copy'[u].id \notin mixed' \cup {0}
        PROVE  u = v
    <3>1. CASE u = t
      BY <1>3, <1>9, <2>3, <3>1
    <3>2. CASE v = t
      BY <1>3, <1>9, <2>3, <3>2
    <3>3. CASE u # t /\ v # t
      BY <1>0, <1>3, <1>10, <2>3, <3>3 DEF UpdateInv
    <3> QED BY <3>1, <3>2, <3>3
  <2>4. ASSUME NEW u \in Tasks, stage'[u] = "write", copy'[u].id \in DOMAIN db'.files \ mixed'
        PROVE  /\ u \in DaemonTasks \/ job'[u].op = "state" => copy'[u].row.path = meant'[copy'[u].id].path
               /\ u \in MountTasks /\ job'[u].op = "state" => copy'[u].row.state = job'[u].state
               /\ u \in MountTasks /\ job'[u].op = "upsert" =>
                    /\ copy'[u].row.path = job'[u].path
                    /\ copy'[u].row.state = meant'[copy'[u].id].state
    <3>1. CASE u = t
      <4>1. id \in DOMAIN db.files \ mixed /\ id # 0
        BY <1>3, <1>7, <1>10, <2>4, <3>1
      <4>2. db.files[id].path = meant[id].path /\ FileOfRow(db.files[id]).state = meant[id].state
        BY <1>0, <4>1 DEF UpdateInv, NoLostUpdate
      <4> QED BY <1>3, <3>1, <4>1, <4>2
    <3>2. CASE u # t
      <4>1. stage[u] = "write" /\ copy'[u] = copy[u] /\ copy[u].id \in DOMAIN db.files \ mixed
        BY <1>3, <1>10, <2>4, <3>2
      <4> QED BY <1>0, <4>1 DEF UpdateInv
    <3> QED BY <3>1, <3>2
  <2> QED BY <2>1, <2>2, <2>3, <2>4 DEF UpdateInv
<1> QED BY <1>1, <1>3, <1>5, <1>6, <1>8, <1>11

\* A step that at most drops rows, and after which closures go on or have ended.
LEMMA DropStep ==
    ASSUME HandlerInv,
           \A u \in Tasks : \/ stage'[u] = "write" /\ stage[u] = "write" /\ copy'[u] = copy[u] /\ job'[u] = job[u]
                            \/ stage'[u] # "write" /\ copy'[u].id = 0,
           mixed' = mixed, DOMAIN db' = {"accounts", "files", "cursors", "next"},
           db'.next = db.next, DOMAIN db'.accounts \subseteq AccountIds, NoOrphans',
           DOMAIN db'.files \subseteq DOMAIN db.files,
           db'.files = [r \in DOMAIN db'.files |-> db.files[r]],
           meant' = [r \in DOMAIN db'.files |-> meant[r]]
    PROVE  TablesOK' /\ OrphansInv' /\ UpdateInv'
<1>0. TablesOK /\ OrphansInv /\ UpdateInv
  BY DEF HandlerInv, HandlerTypeOK
<1> DEFINE kept == DOMAIN db'.files
<1>1. \A r \in kept : r \in DOMAIN db.files /\ db'.files[r] = db.files[r] /\ meant'[r] = meant[r]
  OBVIOUS
<1>2. TablesOK'
  <2>1. db'.files \in [DOMAIN db'.files -> FilesIn({StateName(s) : s \in States})]
    BY <1>0, <1>1 DEF TablesOK
  <2>2. DOMAIN db'.files \subseteq 1..(db'.next - 1) /\ db'.next \in Nat \ {0}
    BY <1>0 DEF TablesOK
  <2>3. \A r, q \in DOMAIN db'.files :
          db'.files[r].file = db'.files[q].file /\ db'.files[r].account = db'.files[q].account => r = q
    BY <1>0, <1>1 DEF TablesOK
  <2> QED BY <2>1, <2>2, <2>3 DEF TablesOK
<1>3. OrphansInv'
  <2>1. \A u \in Tasks : stage'[u] # "write" => copy'[u].id = 0
    OBVIOUS
  <2>2. ASSUME NEW u \in Tasks, stage'[u] = "write"
        PROVE  /\ copy'[u].row \in FilesIn(States)
               /\ copy'[u].id \in 0..(db'.next - 1)
               /\ copy'[u].id \in DOMAIN db'.files =>
                    /\ db'.files[copy'[u].id].account = copy'[u].row.account
                    /\ db'.files[copy'[u].id].file = copy'[u].row.file
    <3>1. stage[u] = "write" /\ copy'[u] = copy[u]
      BY <2>2
    <3> QED BY <1>0, <1>1, <3>1 DEF OrphansInv
  <2> QED BY <2>1, <2>2 DEF OrphansInv
<1>4. UpdateInv'
  <2>1. meant' \in [DOMAIN db'.files -> [path : Paths, state : States]]
    BY <1>0 DEF UpdateInv
  <2>2. NoLostUpdate'
    BY <1>0, <1>1 DEF UpdateInv, NoLostUpdate
  <2>3. ASSUME NEW u \in Tasks, NEW v \in Tasks, copy'[u].id = copy'[v].id,
               copy'[u].id \notin mixed' \cup {0}
        PROVE  u = v
    <3>1. copy'[u] = copy[u] /\ copy'[v] = copy[v]
      BY <2>3
    <3> QED BY <1>0, <2>3, <3>1 DEF UpdateInv
  <2>4. ASSUME NEW u \in Tasks, stage'[u] = "write", copy'[u].id \in DOMAIN db'.files \ mixed'
        PROVE  /\ u \in DaemonTasks \/ job'[u].op = "state" => copy'[u].row.path = meant'[copy'[u].id].path
               /\ u \in MountTasks /\ job'[u].op = "state" => copy'[u].row.state = job'[u].state
               /\ u \in MountTasks /\ job'[u].op = "upsert" =>
                    /\ copy'[u].row.path = job'[u].path
                    /\ copy'[u].row.state = meant'[copy'[u].id].state
    <3>1. /\ stage[u] = "write" /\ copy'[u] = copy[u] /\ job'[u] = job[u]
          /\ copy[u].id \in DOMAIN db.files \ mixed /\ meant'[copy[u].id] = meant[copy[u].id]
      BY <1>1, <2>4
    <3> QED BY <1>0, <3>1 DEF UpdateInv
  <2> QED BY <2>1, <2>2, <2>3, <2>4 DEF UpdateInv
<1> QED BY <1>2, <1>3, <1>4

\* A closure ends: its task lets go of the connection and of its copy.
LEMMA ReleaseStep ==
    ASSUME HandlerInv, NEW t \in Tasks, stage[t] = "write",
           NEW l \in {"idle", "resolve"}, stage' = [stage EXCEPT ![t] = l], Released(t),
           \A u \in Tasks \ {t} : job'[u] = job[u]
    PROVE  /\ LocksOK' /\ DOMAIN copy' = Tasks
           /\ stage'[t] # "write" /\ copy'[t].id = 0
           /\ \A u \in Tasks \ {t} : stage'[u] = stage[u] /\ copy'[u] = copy[u] /\ job'[u] = job[u]
           /\ \A u \in Tasks : \/ stage'[u] = "write" /\ stage[u] = "write" /\ copy'[u] = copy[u] /\ job'[u] = job[u]
                               \/ stage'[u] # "write" /\ copy'[u].id = 0
<1>0. LocksOK /\ OrphansInv /\ JobsInv
  BY DEF HandlerInv, HandlerTypeOK
<1>1. stage'[t] = l /\ \A u \in Tasks \ {t} : stage'[u] = stage[u]
  BY <1>0 DEF LocksOK
<1>2. mutex[Process(t)] = t /\ \A u \in Tasks : Process(u) \in {"daemon", "mount"}
  BY <1>0 DEF LocksOK, Process
<1>3. mutex' = [mutex EXCEPT ![Process(t)] = Free]
  BY <1>0, <1>2 DEF Released, LocksOK
<1>4. /\ copy'[t] = NoCopy /\ DOMAIN copy' = Tasks
      /\ \A u \in Tasks \ {t} : copy'[u] = copy[u]
  BY <1>0 DEF Released, JobsInv
<1>5. copy'[t].id = 0
  BY <1>4 DEF NoCopy
<1>6. LocksOK'
  <2>1. stage' \in [Tasks -> {"idle", "resolve", "select", "write"}]
    BY <1>0 DEF LocksOK
  <2>2. mutex' \in [{"daemon", "mount"} -> Tasks \cup {Free}]
    BY <1>0, <1>3 DEF LocksOK
  <2>3. ASSUME NEW u \in Tasks PROVE stage'[u] = "write" <=> mutex'[Process(u)] = u
    <3>1. CASE u = t
      BY <1>0, <1>1, <1>2, <1>3, <3>1, HandlerAssumption DEF LocksOK
    <3>2. CASE u # t /\ Process(u) = Process(t)
      <4>1. stage[u] # "write"
        BY <1>0, <1>2, <3>2 DEF LocksOK
      <4> QED BY <1>0, <1>1, <1>2, <1>3, <3>2, <4>1, HandlerAssumption DEF LocksOK
    <3>3. CASE Process(u) # Process(t)
      BY <1>0, <1>1, <1>2, <1>3, <3>3 DEF LocksOK
    <3> QED BY <3>1, <3>2, <3>3
  <2> QED BY <2>1, <2>2, <2>3 DEF LocksOK
<1>7. \A u \in Tasks \ {t} : stage[u] # "write" => copy[u].id = 0
  BY <1>0 DEF OrphansInv
<1> QED BY <1>1, <1>4, <1>5, <1>6, <1>7

\* A closure has written its copy over the row, which may be gone.
LEMMA UpdateStep ==
    ASSUME HandlerInv, NEW t \in Tasks, stage[t] = "write",
           NEW l \in {"idle", "resolve"}, stage' = [stage EXCEPT ![t] = l], Released(t),
           \A u \in Tasks \ {t} : job'[u] = job[u], mixed' = mixed,
           NEW path, NEW state, Stored(update_file(db, copy[t].id, copy[t].row), copy[t].id, path, state),
           copy[t].id \in DOMAIN db.files => path \in Paths /\ state \in States,
           copy[t].id \in DOMAIN db.files \ mixed => path = copy[t].row.path /\ state = copy[t].row.state
    PROVE  TablesOK' /\ LocksOK' /\ OrphansInv' /\ UpdateInv'
<1>0. TablesOK /\ LocksOK /\ OrphansInv /\ UpdateInv
  BY DEF HandlerInv, HandlerTypeOK
<1> DEFINE id == copy[t].id
           f == copy[t].row
<1>1. f \in FilesIn(States)
  BY <1>0 DEF OrphansInv
<1>2. /\ LocksOK' /\ stage'[t] # "write" /\ copy'[t].id = 0
      /\ \A u \in Tasks \ {t} : stage'[u] = stage[u] /\ copy'[u] = copy[u] /\ job'[u] = job[u]
      /\ \A u \in Tasks : \/ stage'[u] = "write" /\ stage[u] = "write" /\ copy'[u] = copy[u] /\ job'[u] = job[u]
                          \/ stage'[u] # "write" /\ copy'[u].id = 0
  BY ReleaseStep
<1>3. /\ DOMAIN db' = {"accounts", "files", "cursors", "next"}
      /\ db'.accounts = db.accounts /\ db'.cursors = db.cursors /\ db'.next = db.next
      /\ id \notin DOMAIN db.files => db'.files = db.files
      /\ id \in DOMAIN db.files => db'.files = [db.files EXCEPT ![id] = ToRow(f)]
  <2>1. db' = update_file(db, id, f)
    BY DEF Stored
  <2>2. DOMAIN db = {"accounts", "files", "cursors", "next"}
    BY <1>0 DEF TablesOK
  <2> HIDE DEF id, f
  <2> QED BY <2>1, <2>2, UpdateStatement
<1>4. meant' = [r \in DOMAIN db'.files |-> IF r = id THEN [path |-> path, state |-> state] ELSE meant[r]]
  BY DEF Stored
<1> HIDE DEF f
<1>5. CASE id \notin DOMAIN db.files
  <2>1. /\ db'.files = [r \in DOMAIN db'.files |-> db.files[r]] /\ DOMAIN db'.files = DOMAIN db.files
        /\ meant' = [r \in DOMAIN db'.files |-> meant[r]]
    BY <1>0, <1>3, <1>4, <1>5 DEF TablesOK
  <2>2. NoOrphans' /\ DOMAIN db'.accounts \subseteq AccountIds
    BY <1>0, <1>3, <1>5 DEF OrphansInv, NoOrphans, HasAccount, TablesOK
  <2> QED BY <1>2, <1>3, <2>1, <2>2, DropStep
<1>6. CASE id \in DOMAIN db.files
  <2>1. /\ DOMAIN db'.files = DOMAIN db.files
        /\ db'.files[id] = ToRow(f)
        /\ \A r \in DOMAIN db.files \ {id} : db'.files[r] = db.files[r] /\ meant'[r] = meant[r]
        /\ meant'[id].path = path /\ meant'[id].state = state
    BY <1>0, <1>3, <1>4, <1>6 DEF TablesOK
  <2>2. /\ ToRow(f) \in FilesIn({StateName(s) : s \in States})
        /\ ToRow(f).account = f.account /\ ToRow(f).file = f.file /\ ToRow(f).path = f.path
        /\ FileOfRow(ToRow(f)).state = f.state
    BY <1>1, ToRowIs
  <2>3. db.files[id].account = f.account /\ db.files[id].file = f.file
    BY <1>0, <1>6 DEF OrphansInv, f
  <2>4. \A r \in DOMAIN db.files : /\ db'.files[r].account = db.files[r].account
                                   /\ db'.files[r].file = db.files[r].file
    BY <2>1, <2>2, <2>3
  <2>5. TablesOK'
    <3>1. db'.files \in [DOMAIN db'.files -> FilesIn({StateName(s) : s \in States})]
      <4> DEFINE R == FilesIn({StateName(s) : s \in States})
      <4>1. db.files \in [DOMAIN db.files -> R] /\ ToRow(f) \in R
        BY <1>0, <2>2 DEF TablesOK
      <4> HIDE DEF R
      <4>2. [db.files EXCEPT ![id] = ToRow(f)] \in [DOMAIN db.files -> R]
        BY <4>1
      <4> QED BY <1>3, <1>6, <2>1, <4>2 DEF R
    <3>2. \A r, q \in DOMAIN db'.files :
            db'.files[r].file = db'.files[q].file /\ db'.files[r].account = db'.files[q].account => r = q
      BY <1>0, <2>1, <2>4 DEF TablesOK
    <3> QED BY <1>0, <1>3, <2>1, <3>1, <3>2 DEF TablesOK
  <2>6. OrphansInv'
    <3>1. NoOrphans'
      BY <1>0, <1>3, <2>1, <2>4 DEF OrphansInv, NoOrphans, HasAccount
    <3>2. \A u \in Tasks : stage'[u] # "write" => copy'[u].id = 0
      BY <1>2
    <3>3. ASSUME NEW u \in Tasks, stage'[u] = "write"
          PROVE  /\ copy'[u].row \in FilesIn(States)
                 /\ copy'[u].id \in 0..(db'.next - 1)
                 /\ copy'[u].id \in DOMAIN db'.files =>
                      /\ db'.files[copy'[u].id].account = copy'[u].row.account
                      /\ db'.files[copy'[u].id].file = copy'[u].row.file
      <4>1. stage[u] = "write" /\ copy'[u] = copy[u]
        BY <1>2, <3>3
      <4> QED BY <1>0, <1>3, <2>1, <2>4, <4>1 DEF OrphansInv
    <3> QED BY <3>1, <3>2, <3>3 DEF OrphansInv
  \* no other task will write the row, unless it is mixed
  <2>7. \A u \in Tasks : copy'[u].id # 0 /\ copy'[u].id \notin mixed => u # t /\ copy'[u].id # id
    BY <1>0, <1>2 DEF UpdateInv
  <2>8. UpdateInv'
    <3>1. meant' \in [DOMAIN db'.files -> [path : Paths, state : States]]
      BY <1>0, <1>4, <1>6, <2>1 DEF UpdateInv
    <3>2. NoLostUpdate'
      <4> SUFFICES ASSUME NEW r \in DOMAIN db.files \ mixed
                   PROVE  /\ db'.files[r].path = meant'[r].path
                          /\ FileOfRow(db'.files[r]).state = meant'[r].state
        BY <2>1 DEF NoLostUpdate
      <4>1. CASE r = id
        BY <2>1, <2>2, <4>1 DEF f
      <4>2. CASE r # id
        BY <1>0, <2>1, <4>2 DEF UpdateInv, NoLostUpdate
      <4> QED BY <4>1, <4>2
    <3>3. ASSUME NEW u \in Tasks, NEW v \in Tasks, copy'[u].id = copy'[v].id,
                 copy'[u].id \notin mixed' \cup {0}
          PROVE  u = v
      <4>1. copy'[u] = copy[u] /\ copy'[v] = copy[v]
        BY <1>2, <3>3
      <4> QED BY <1>0, <3>3, <4>1 DEF UpdateInv
    <3>4. ASSUME NEW u \in Tasks, stage'[u] = "write", copy'[u].id \in DOMAIN db'.files \ mixed'
          PROVE  /\ u \in DaemonTasks \/ job'[u].op = "state" => copy'[u].row.path = meant'[copy'[u].id].path
                 /\ u \in MountTasks /\ job'[u].op = "state" => copy'[u].row.state = job'[u].state
                 /\ u \in MountTasks /\ job'[u].op = "upsert" =>
                      /\ copy'[u].row.path = job'[u].path
                      /\ copy'[u].row.state = meant'[copy'[u].id].state
      <4>0. copy'[u].id # 0
        BY <1>0, <2>1, <3>4 DEF TablesOK
      <4>1. u # t /\ copy'[u].id # id
        BY <2>7, <3>4, <4>0
      <4>2. /\ stage[u] = "write" /\ copy'[u] = copy[u] /\ job'[u] = job[u]
            /\ copy[u].id \in DOMAIN db.files \ mixed /\ meant'[copy[u].id] = meant[copy[u].id]
        BY <1>2, <2>1, <3>4, <4>1
      <4> QED BY <1>0, <4>2 DEF UpdateInv
    <3> QED BY <3>1, <3>2, <3>3, <3>4 DEF UpdateInv
  <2> QED BY <1>2, <2>5, <2>6, <2>8
<1> QED BY <1>5, <1>6

\* A closure has inserted a row, under an id that no closure has read.
LEMMA CreateStep ==
    ASSUME HandlerInv, NEW t \in Tasks, stage[t] = "write",
           NEW l \in {"idle", "resolve"}, stage' = [stage EXCEPT ![t] = l], Released(t),
           \A u \in Tasks \ {t} : job'[u] = job[u], mixed' = mixed,
           ~ FileConflicts(db, copy[t].row),
           Stored(create_file(db, copy[t].row), db.next, copy[t].row.path, copy[t].row.state)
    PROVE  TablesOK' /\ LocksOK' /\ OrphansInv' /\ UpdateInv'
<1>0. TablesOK /\ LocksOK /\ OrphansInv /\ UpdateInv
  BY DEF HandlerInv, HandlerTypeOK
<1> DEFINE n == db.next
           f == copy[t].row
<1>1. /\ f \in FilesIn(States) /\ f.account \in AccountIds
      /\ f.path \in Paths /\ f.state \in States
  BY <1>0 DEF OrphansInv, FilesIn
<1>2. /\ LocksOK' /\ stage'[t] # "write" /\ copy'[t].id = 0
      /\ \A u \in Tasks : \/ stage'[u] = "write" /\ stage[u] = "write" /\ copy'[u] = copy[u] /\ job'[u] = job[u]
                          \/ stage'[u] # "write" /\ copy'[u].id = 0
  BY ReleaseStep
<1>3. n \in Nat \ {0} /\ n \notin DOMAIN db.files
  BY <1>0 DEF TablesOK
<1>4. /\ DOMAIN db' = {"accounts", "files", "cursors", "next"}
      /\ db'.accounts = db.accounts /\ db'.cursors = db.cursors /\ db'.next = n + 1
      /\ db'.files = With(db.files, n, ToRow(f))
  <2>1. db' = create_file(db, f)
    BY DEF Stored
  <2>2. DOMAIN db = {"accounts", "files", "cursors", "next"}
    BY <1>0 DEF TablesOK
  <2> HIDE DEF f
  <2> QED BY <2>1, <2>2, FileStatements
<1>5. meant' = [r \in DOMAIN db'.files |-> IF r = n THEN [path |-> f.path, state |-> f.state] ELSE meant[r]]
  BY DEF Stored
<1>6. /\ DOMAIN db'.files = DOMAIN db.files \cup {n}
      /\ db'.files = [r \in DOMAIN db.files \cup {n} |-> IF r = n THEN ToRow(f) ELSE db.files[r]]
      /\ db'.files[n] = ToRow(f)
      /\ \A r \in DOMAIN db.files : db'.files[r] = db.files[r] /\ meant'[r] = meant[r]
      /\ meant'[n].path = f.path /\ meant'[n].state = f.state
  BY <1>3, <1>4, <1>5 DEF With
<1>7. /\ ToRow(f) \in FilesIn({StateName(s) : s \in States})
      /\ ToRow(f).account = f.account /\ ToRow(f).file = f.file /\ ToRow(f).path = f.path
      /\ FileOfRow(ToRow(f)).state = f.state
  BY <1>1, ToRowIs
<1>8. /\ HasAccount(db, f.account)
      /\ \A r \in DOMAIN db.files : ~ (db.files[r].account = f.account /\ db.files[r].file = f.file)
  BY DEF FileConflicts, RowsOfFile, ForeignKeys
<1> HIDE DEF f
<1>9. TablesOK'
  <2>1. db'.files \in [DOMAIN db'.files -> FilesIn({StateName(s) : s \in States})]
    <3> DEFINE R == FilesIn({StateName(s) : s \in States})
    <3>1. db.files \in [DOMAIN db.files -> R] /\ ToRow(f) \in R
      BY <1>0, <1>7 DEF TablesOK
    <3> HIDE DEF R, n
    <3>2. [r \in DOMAIN db.files \cup {n} |-> IF r = n THEN ToRow(f) ELSE db.files[r]]
            \in [DOMAIN db.files \cup {n} -> R]
      BY <3>1
    <3> QED BY <1>6, <3>2 DEF R
  <2>2. DOMAIN db'.files \subseteq 1..(db'.next - 1) /\ db'.next \in Nat \ {0}
    BY <1>0, <1>3, <1>4, <1>6 DEF TablesOK
  <2>3. ASSUME NEW r \in DOMAIN db'.files, NEW q \in DOMAIN db'.files,
               db'.files[r].file = db'.files[q].file, db'.files[r].account = db'.files[q].account
        PROVE  r = q
    <3>1. CASE r = n /\ q # n
      BY <1>6, <1>7, <1>8, <2>3, <3>1
    <3>2. CASE r # n /\ q = n
      BY <1>6, <1>7, <1>8, <2>3, <3>2
    <3>3. CASE r # n /\ q # n
      BY <1>0, <1>6, <2>3, <3>3 DEF TablesOK
    <3> QED BY <3>1, <3>2, <3>3
  <2>4. DOMAIN db'.accounts \subseteq AccountIds
    BY <1>0, <1>4 DEF TablesOK
  <2> QED BY <1>4, <2>1, <2>2, <2>3, <2>4 DEF TablesOK
<1>10. OrphansInv'
  <2>1. NoOrphans'
    BY <1>0, <1>4, <1>6, <1>7, <1>8 DEF OrphansInv, NoOrphans, HasAccount
  <2>2. \A u \in Tasks : stage'[u] # "write" => copy'[u].id = 0
    BY <1>2
  <2>3. ASSUME NEW u \in Tasks, stage'[u] = "write"
        PROVE  /\ copy'[u].row \in FilesIn(States)
               /\ copy'[u].id \in 0..(db'.next - 1)
               /\ copy'[u].id \in DOMAIN db'.files =>
                    /\ db'.files[copy'[u].id].account = copy'[u].row.account
                    /\ db'.files[copy'[u].id].file = copy'[u].row.file
    <3>1. stage[u] = "write" /\ copy'[u] = copy[u]
      BY <1>2, <2>3
    <3>2. copy[u].id \in 0..(n - 1) /\ copy[u].row \in FilesIn(States)
      BY <1>0, <3>1 DEF OrphansInv
    <3>3. copy[u].id # n /\ copy[u].id \in 0..(db'.next - 1)
      BY <1>3, <1>4, <3>2
    <3> QED BY <1>0, <1>6, <3>1, <3>2, <3>3 DEF OrphansInv
  <2> QED BY <2>1, <2>2, <2>3 DEF OrphansInv
<1>11. UpdateInv'
  <2>1. meant' \in [DOMAIN db'.files -> [path : Paths, state : States]]
    <3>1. f.path \in Paths /\ f.state \in States
      BY <1>1 DEF f
    <3> QED BY <1>0, <1>5, <1>6, <3>1 DEF UpdateInv
  <2>2. NoLostUpdate'
    <3> SUFFICES ASSUME NEW r \in DOMAIN db'.files \ mixed
                 PROVE  /\ db'.files[r].path = meant'[r].path
                        /\ FileOfRow(db'.files[r]).state = meant'[r].state
      BY DEF NoLostUpdate
    <3>1. CASE r = n
      BY <1>6, <1>7, <3>1
    <3>2. CASE r \in DOMAIN db.files
      <4>1. db.files[r].path = meant[r].path /\ FileOfRow(db.files[r]).state = meant[r].state
        BY <1>0, <3>2 DEF UpdateInv, NoLostUpdate
      <4>2. db'.files[r] = db.files[r] /\ meant'[r] = meant[r]
        BY <1>6, <3>2
      <4> QED BY <4>1, <4>2
    <3> QED BY <1>6, <3>1, <3>2
  <2>3. ASSUME NEW u \in Tasks, NEW v \in Tasks, copy'[u].id = copy'[v].id,
               copy'[u].id \notin mixed' \cup {0}
        PROVE  u = v
    <3>1. copy'[u] = copy[u] /\ copy'[v] = copy[v]
      BY <1>2, <2>3
    <3> QED BY <1>0, <2>3, <3>1 DEF UpdateInv
  <2>4. ASSUME NEW u \in Tasks, stage'[u] = "write", copy'[u].id \in DOMAIN db'.files \ mixed'
        PROVE  /\ u \in DaemonTasks \/ job'[u].op = "state" => copy'[u].row.path = meant'[copy'[u].id].path
               /\ u \in MountTasks /\ job'[u].op = "state" => copy'[u].row.state = job'[u].state
               /\ u \in MountTasks /\ job'[u].op = "upsert" =>
                    /\ copy'[u].row.path = job'[u].path
                    /\ copy'[u].row.state = meant'[copy'[u].id].state
    <3>1. stage[u] = "write" /\ copy'[u] = copy[u] /\ job'[u] = job[u]
      BY <1>2, <2>4
    <3>2. copy[u].id \in 0..(n - 1)
      BY <1>0, <3>1 DEF OrphansInv
    <3>3. copy[u].id # n
      BY <1>3, <3>2
    <3>4. copy[u].id \in DOMAIN db.files \ mixed /\ meant'[copy[u].id] = meant[copy[u].id]
      BY <1>6, <2>4, <3>1, <3>3
    <3> QED BY <1>0, <3>1, <3>4 DEF UpdateInv
  <2> QED BY <2>1, <2>2, <2>3, <2>4 DEF UpdateInv
<1> QED BY <1>2, <1>9, <1>10, <1>11

-----------------------------------------------------------------------------
(* The handler: its steps.                                                 *)

\* A request arrives, or is answered at once.
LEMMA RequestStep ==
    ASSUME HandlerInv, NEW t \in DaemonTasks,
           \/ \E op, p : p \in Seq(Locals) \ {<<>>} /\ Request(t, op, p)
           \/ \E kind \in {"Pause", "Resume"} : \E slug : PauseOrResume(t, kind, slug)
           \/ Ping(t)
    PROVE  HandlerInv'
<1>0. t \in Tasks /\ t \notin MountTasks /\ TablesOK /\ LocksOK /\ AnswersOK /\ JobsInv
  BY HandlerAssumption DEF Tasks, HandlerInv, HandlerTypeOK
<1>1. ASSUME NEW op, NEW p \in Seq(Locals) \ {<<>>}, Request(t, op, p) PROVE HandlerInv'
  <2>1. /\ stage[t] = "idle" /\ stage' = [stage EXCEPT ![t] = "resolve"]
        /\ job' = [job EXCEPT ![t] = [op |-> op, todo |-> p]]
        /\ UNCHANGED <<db, snapshot, mutex, account, copy, sent, meant, mixed>>
    BY <1>1 DEF Request, Enter, hist
  <2>2. reply' \in [DaemonTasks -> States \cup Errors \cup {"none", "Ok", "Error"}]
    BY <1>0, <1>1 DEF Request, AnswersOK
  <2>3. /\ DOMAIN job' = Tasks /\ \A u \in Tasks \ {t} : job'[u] = job[u]
        /\ job'[t].todo = p
    BY <1>0, <2>1 DEF JobsInv
  <2>4. TablesOK' /\ LocksOK' /\ OrphansInv' /\ UpdateInv'
    BY <1>0, <2>1, <2>3, QuietStep
  <2>5. DOMAIN copy' = Tasks /\ account' \in [DaemonTasks -> AccountIds]
    BY <1>0, <2>1 DEF JobsInv
  <2>6. JobsInv'
    BY <1>0, <2>1, <2>3, <2>5, JobsStep
  <2> QED BY <1>0, <2>1, <2>2, <2>4, <2>6 DEF HandlerInv, HandlerTypeOK, AnswersOK
<1>2. ASSUME NEW kind \in {"Pause", "Resume"}, NEW slug, PauseOrResume(t, kind, slug) \/ Ping(t)
      PROVE  HandlerInv'
  <2>1. /\ stage[t] = "idle"
        /\ UNCHANGED <<db, snapshot, mutex, stage, job, account, copy, meant, mixed>>
    BY <1>2 DEF PauseOrResume, Ping, hist
  <2>2. reply' \in [DaemonTasks -> States \cup Errors \cup {"none", "Ok", "Error"}]
    BY <1>0, <1>2 DEF PauseOrResume, Ping, AnswersOK
  <2>3. sent' \subseteq DaemonAction
    BY <1>0, <1>2, PauseAction, SentOK DEF PauseOrResume, Ping, AnswersOK
  <2>4. stage' = [stage EXCEPT ![t] = "idle"]
    BY <1>0, <2>1 DEF LocksOK
  <2>5. TablesOK' /\ LocksOK' /\ OrphansInv' /\ UpdateInv'
    BY <1>0, <2>1, <2>4, QuietStep
  <2>6. DOMAIN job' = Tasks /\ DOMAIN copy' = Tasks /\ account' \in [DaemonTasks -> AccountIds]
    BY <1>0, <2>1 DEF JobsInv
  <2>7. JobsInv'
    BY <1>0, <2>1, <2>4, <2>6, JobsStep
  <2> QED BY <2>2, <2>3, <2>5, <2>7 DEF HandlerInv, HandlerTypeOK, AnswersOK
<1> QED BY <1>1, <1>2

\* The path at hand is resolved, or the request is refused; ForceSync is answered.
LEMMA ResolveStep ==
    ASSUME HandlerInv, NEW t \in DaemonTasks, Resolve(t) \/ ForceSync(t)
    PROVE  HandlerInv'
<1>0. t \in Tasks /\ t \notin MountTasks /\ TablesOK /\ LocksOK /\ AnswersOK /\ JobsInv
  BY HandlerAssumption DEF Tasks, HandlerInv, HandlerTypeOK
<1> DEFINE local == Head(job[t].todo)
           r == resolve_and_lookup(local)
<1>1. stage[t] = "resolve" /\ UNCHANGED <<db, snapshot, mutex, copy, meant, mixed>>
  BY DEF Resolve, ForceSync, hist
<1>2. job[t].todo \in Seq(Locals) \ {<<>>}
  BY <1>0, <1>1 DEF JobsInv
<1>3. local \in Locals
  BY <1>2, RestOfPaths
<1>4. /\ r.error \in Errors \cup {"none"}
      /\ r.error = "none" => /\ resolve_local(SyncRoot, local).inside
                             /\ r.account \in AccountIds
                             /\ r.cloud_path = resolve_local(SyncRoot, local).cloud_path
  BY <1>0, Resolved
<1>5. ASSUME r.error # "none", Answer(t, r.error), UNCHANGED <<account, sent>>
      PROVE  HandlerInv'
  <2>1. r.error \in States \cup Errors \cup {"Ok"} /\ sent' \subseteq DaemonAction
    BY <1>0, <1>4, <1>5 DEF AnswersOK
  <2> HIDE DEF r
  <2> QED BY <1>1, <1>5, <2>1, AnswerStep
<1>6. ASSUME ForceSync(t), r.error = "none" PROVE HandlerInv'
  <2>1. /\ send_action([kind |-> "Force", account |-> r.account, path |-> r.cloud_path])
        /\ Answer(t, "Ok") /\ UNCHANGED account
    BY <1>6 DEF ForceSync
  <2> HIDE DEF r
  <2>2. [kind |-> "Force", account |-> r.account, path |-> r.cloud_path] \in DaemonAction
    BY <1>3, <1>4, <1>6, ForceAction
  <2>3. sent' \subseteq DaemonAction
    BY <1>0, <2>1, <2>2, SentOK DEF AnswersOK
  <2> QED BY <1>1, <2>1, <2>3, AnswerStep
<1>7. ASSUME Resolve(t), r.error = "none" PROVE HandlerInv'
  <2>1. /\ account' = [account EXCEPT ![t] = r.account]
        /\ stage' = [stage EXCEPT ![t] = "select"]
        /\ UNCHANGED <<job, reply, sent>>
    BY <1>7 DEF Resolve, Enter
  <2> HIDE DEF r
  <2>2. TablesOK' /\ LocksOK' /\ OrphansInv' /\ UpdateInv'
    BY <1>0, <1>1, <2>1, QuietStep
  <2>3. DOMAIN job' = Tasks /\ DOMAIN copy' = Tasks /\ account' \in [DaemonTasks -> AccountIds]
    BY <1>0, <1>1, <1>4, <1>7, <2>1 DEF JobsInv
  <2>4. resolve_local(SyncRoot, Head(job'[t].todo)).inside
    BY <1>4, <1>7, <2>1
  <2>5. JobsInv'
    BY <1>0, <1>1, <1>2, <2>1, <2>3, <2>4, JobsStep
  <2> QED BY <1>0, <2>1, <2>2, <2>5 DEF HandlerInv, HandlerTypeOK, AnswersOK
<1> QED BY <1>5, <1>6, <1>7 DEF Resolve, ForceSync

\* A file that was pinned goes to the sync loop as an action.
LEMMA ForcedSent ==
    ASSUME HandlerInv, NEW t \in DaemonTasks, stage[t] \in {"select", "write"}, Forced(t)
    PROVE  sent' \subseteq DaemonAction
<1>0. AnswersOK /\ JobsInv /\ stage[t] # "idle" /\ stage[t] # "resolve"
  BY DEF HandlerInv, HandlerTypeOK
<1>1. Head(job[t].todo) \in Locals
  BY <1>0, RestOfPaths DEF JobsInv
<1>2. resolve_local(SyncRoot, Head(job[t].todo)).inside /\ account[t] \in AccountIds
  BY <1>0 DEF JobsInv
<1>3. [kind |-> "Force", account |-> account[t],
       path |-> resolve_local(SyncRoot, Head(job[t].todo)).cloud_path] \in DaemonAction
  BY <1>1, <1>2, ForceAction
<1> QED BY <1>0, <1>3, SentOK DEF Forced, AnswersOK

\* The SELECT of a request.
LEMMA SelectStep ==
    ASSUME HandlerInv, NEW t \in DaemonTasks, Select(t)
    PROVE  HandlerInv'
<1>0. t \in Tasks /\ t \notin MountTasks /\ TablesOK /\ LocksOK /\ AnswersOK /\ JobsInv
  BY HandlerAssumption DEF Tasks, HandlerInv, HandlerTypeOK
<1> DEFINE ids == RowsAtPath(db, account[t], resolve_local(SyncRoot, Head(job[t].todo)).cloud_path)
           op == job[t].op
           Row(r) == FileOfRow(db.files[r])
<1>1. stage[t] = "select" /\ UNCHANGED <<db, snapshot, account, meant>>
  BY DEF Select
<1>2. ids \subseteq DOMAIN db.files
  BY RowsExist
<1> HIDE DEF ids
<1>3. \A r \in ids : /\ Row(r) \in FilesIn(States) /\ Row(r).state \in States
                     /\ Row(r).account = db.files[r].account /\ Row(r).file = db.files[r].file
                     /\ Row(r).path = db.files[r].path
  <2>1. ASSUME NEW r \in ids
        PROVE  /\ Row(r) \in FilesIn(States)
               /\ Row(r).account = db.files[r].account /\ Row(r).file = db.files[r].file
               /\ Row(r).path = db.files[r].path
    <3>1. db.files[r] \in FilesIn({StateName(s) : s \in States})
      BY <1>0, <1>2 DEF TablesOK
    <3> QED BY <3>1, FileOfRowIs
  <2> QED BY <2>1 DEF FilesIn
<1>4. ASSUME NEW a \in States \cup Errors \cup {"Ok"}, ReadOnly(t), Answer(t, a),
             sent' \subseteq DaemonAction
      PROVE  HandlerInv'
  <2>1. UNCHANGED <<db, snapshot, mutex, account, copy, meant, mixed>>
    BY <1>1, <1>4 DEF ReadOnly
  <2> QED BY <1>1, <1>4, <2>1, AnswerStep
<1>5. "file not found" \in Errors /\ "database error" \in Errors /\ sent \subseteq DaemonAction
  BY <1>0 DEF Errors, AnswersOK
<1>6. ASSUME NEW r \in ids, NEW state \in States,
             ReadToWrite(t, r, [Row(r) EXCEPT !.state = state]), UNCHANGED <<job, reply, sent>>
      PROVE  HandlerInv'
  <2> DEFINE row == [Row(r) EXCEPT !.state = state]
  <2>1. /\ row \in FilesIn(States) /\ row.account = db.files[r].account
        /\ row.file = db.files[r].file /\ row.path = db.files[r].path
    BY <1>3 DEF FilesIn
  <2> HIDE DEF row
  <2>2. ReadToWrite(t, r, row)
    BY <1>6 DEF row
  <2>3. r \in DOMAIN db.files
    BY <1>2
  <2>4. /\ TablesOK' /\ LocksOK' /\ OrphansInv' /\ UpdateInv' /\ DOMAIN copy' = Tasks
        /\ stage' = [stage EXCEPT ![t] = "write"]
    BY <1>0, <1>1, <1>6, <2>1, <2>2, <2>3, ReadStep
  <2>5. DOMAIN job' = Tasks /\ account' \in [DaemonTasks -> AccountIds]
    BY <1>0, <1>1, <1>6 DEF JobsInv
  <2>6. /\ job'[t].todo \in Seq(Locals) \ {<<>>}
        /\ resolve_local(SyncRoot, Head(job'[t].todo)).inside
    BY <1>0, <1>1, <1>6 DEF JobsInv
  <2>7. JobsInv'
    BY <1>0, <1>1, <1>6, <2>4, <2>5, <2>6, JobsStep
  <2> QED BY <1>0, <1>6, <2>4, <2>7 DEF HandlerInv, HandlerTypeOK, AnswersOK
<1>7. CASE ReadOnly(t) /\ Answer(t, "file not found") /\ UNCHANGED sent
  BY <1>4, <1>5, <1>7
<1>8. CASE (\E r \in ids : ReadOnly(t) /\ Answer(t, Row(r).state)) /\ UNCHANGED sent
  <2>1. PICK r \in ids : ReadOnly(t) /\ Answer(t, Row(r).state)
    BY <1>8
  <2>2. Row(r).state \in States \cup Errors \cup {"Ok"}
    BY <1>3
  <2> HIDE DEF Row
  <2> QED BY <1>4, <1>5, <1>8, <2>1, <2>2
<1>9. CASE ReadOnly(t) /\ Answer(t, "Ok") /\ Forced(t)
  <2>1. sent' \subseteq DaemonAction
    BY <1>1, <1>9, ForcedSent
  <2> QED BY <1>4, <1>9, <2>1
<1>10. CASE /\ \E r \in ids : ReadToWrite(t, r, [Row(r) EXCEPT !.state =
                                  IF op = "SetPinned" THEN "Pending" ELSE "CloudOnly"])
            /\ UNCHANGED <<job, reply, sent>>
  <2> DEFINE state == IF op = "SetPinned" THEN "Pending" ELSE "CloudOnly"
  <2>1. PICK r \in ids : ReadToWrite(t, r, [Row(r) EXCEPT !.state = state])
    BY <1>10
  <2>2. state \in States
    BY DEF States
  <2> HIDE DEF state, Row
  <2> QED BY <1>6, <1>10, <2>1, <2>2
<1>11. CASE ReadOnly(t) /\ Answer(t, "database error") /\ UNCHANGED sent
  BY <1>4, <1>5, <1>11
<1> QED
  <2>1. \/ ReadOnly(t) /\ Answer(t, "file not found") /\ UNCHANGED sent
        \/ (\E r \in ids : ReadOnly(t) /\ Answer(t, Row(r).state)) /\ UNCHANGED sent
        \/ ReadOnly(t) /\ Answer(t, "Ok") /\ Forced(t)
        \/ /\ \E r \in ids : ReadToWrite(t, r, [Row(r) EXCEPT !.state =
                                IF op = "SetPinned" THEN "Pending" ELSE "CloudOnly"])
           /\ UNCHANGED <<job, reply, sent>>
        \/ ReadOnly(t) /\ Answer(t, "database error") /\ UNCHANGED sent
    BY DEF Select, ids
  <2> QED BY <2>1, <1>7, <1>8, <1>9, <1>10, <1>11

\* The UPDATE of a request.
LEMMA DaemonUpdateStep ==
    ASSUME HandlerInv, NEW t \in DaemonTasks, Update(t)
    PROVE  HandlerInv'
<1>0. /\ t \in Tasks /\ t \notin MountTasks /\ TablesOK /\ LocksOK /\ AnswersOK /\ JobsInv
      /\ OrphansInv /\ UpdateInv
  BY HandlerAssumption DEF Tasks, HandlerInv, HandlerTypeOK
<1>1. stage[t] = "write" /\ Released(t) /\ UNCHANGED <<account, snapshot, mixed>>
  BY DEF Update
<1>2. PICK a \in {"Ok", "database error"} : Answer(t, a)
  BY DEF Update
<1>3. /\ reply' \in [DaemonTasks -> States \cup Errors \cup {"none", "Ok", "Error"}]
      /\ DOMAIN job' = Tasks /\ \A u \in Tasks \ {t} : job'[u] = job[u]
      /\ \E l \in {"idle", "resolve"} :
            /\ stage' = [stage EXCEPT ![t] = l]
            /\ l = "resolve" => job'[t].todo \in Seq(Locals) \ {<<>>}
  <2>1. a \in States \cup Errors \cup {"Ok"} /\ stage[t] # "idle"
    BY <1>1 DEF Errors
  <2> QED BY <1>0, <1>2, <2>1, Answered
<1>4. PICK l \in {"idle", "resolve"} :
            /\ stage' = [stage EXCEPT ![t] = l]
            /\ l = "resolve" => job'[t].todo \in Seq(Locals) \ {<<>>}
  BY <1>3
<1>5. sent' \subseteq DaemonAction
  <2>1. Forced(t) \/ sent' = sent
    BY DEF Update
  <2>2. CASE Forced(t)
    BY <1>1, <2>2, ForcedSent
  <2>3. CASE sent' = sent
    BY <1>0, <2>3 DEF AnswersOK
  <2> QED BY <2>1, <2>2, <2>3
<1>6. /\ DOMAIN copy' = Tasks
      /\ \A u \in Tasks : \/ stage'[u] = "write" /\ stage[u] = "write" /\ copy'[u] = copy[u] /\ job'[u] = job[u]
                          \/ stage'[u] # "write" /\ copy'[u].id = 0
      /\ LocksOK'
  BY <1>0, <1>1, <1>3, <1>4, ReleaseStep
<1>7. JobsInv'
  <2>1. account' \in [DaemonTasks -> AccountIds]
    BY <1>0, <1>1 DEF JobsInv
  <2> QED BY <1>0, <1>1, <1>3, <1>4, <1>6, <2>1, JobsStep
<1>8. CASE UNCHANGED <<db, meant>>
  <2>1. /\ db'.files = [r \in DOMAIN db'.files |-> db.files[r]]
        /\ meant' = [r \in DOMAIN db'.files |-> meant[r]]
    BY <1>0, <1>8 DEF TablesOK, UpdateInv
  <2>2. NoOrphans'
    BY <1>0, <1>8 DEF OrphansInv, NoOrphans
  <2>3. TablesOK' /\ OrphansInv' /\ UpdateInv'
    BY <1>0, <1>1, <1>6, <1>8, <2>1, <2>2, DropStep DEF TablesOK
  <2> QED BY <1>3, <1>5, <1>6, <1>7, <2>3 DEF HandlerInv, HandlerTypeOK, AnswersOK
<1>9. CASE Stored(update_file(db, copy[t].id, copy[t].row), copy[t].id,
                  IF copy[t].id \in DOMAIN meant THEN meant[copy[t].id].path ELSE <<>>,
                  copy[t].row.state)
  <2> DEFINE path == IF copy[t].id \in DOMAIN meant THEN meant[copy[t].id].path ELSE <<>>
             state == copy[t].row.state
  <2>1. state \in States
    BY <1>0, <1>1 DEF OrphansInv, FilesIn
  <2>2. copy[t].id \in DOMAIN db.files => path = meant[copy[t].id].path /\ path \in Paths
    BY <1>0 DEF UpdateInv
  <2>3. copy[t].id \in DOMAIN db.files \ mixed => path = copy[t].row.path
    BY <1>0, <1>1, <2>2 DEF UpdateInv
  <2>4. Stored(update_file(db, copy[t].id, copy[t].row), copy[t].id, path, state)
    BY <1>9
  <2>5. state = copy[t].row.state
    OBVIOUS
  <2> HIDE DEF path, state
  <2>6. TablesOK' /\ LocksOK' /\ OrphansInv' /\ UpdateInv'
    BY <1>0, <1>1, <1>3, <1>4, <2>1, <2>2, <2>3, <2>4, <2>5, UpdateStep
  <2> QED BY <1>3, <1>5, <1>7, <2>6 DEF HandlerInv, HandlerTypeOK, AnswersOK
<1> QED BY <1>8, <1>9 DEF Update

\* A task of the mount has a change of the feed or a state to store.
LEMMA JobStep ==
    ASSUME HandlerInv, NEW t \in MountTasks, NEW j, Job(t, j),
           \/ j \in ApplyChange
           \/ \E r \in DOMAIN db.files, s \in {"Syncing", "Synced"} :
                j = [op |-> "state", file |-> db.files[r].file, state |-> s]
    PROVE  HandlerInv'
<1>0. t \in Tasks /\ t \notin DaemonTasks /\ TablesOK /\ LocksOK /\ AnswersOK /\ JobsInv
  BY HandlerAssumption DEF Tasks, HandlerInv, HandlerTypeOK
<1>1. /\ stage[t] = "idle" /\ stage' = [stage EXCEPT ![t] = "select"]
      /\ job' = [job EXCEPT ![t] = j]
      /\ UNCHANGED <<db, snapshot, mutex, account, copy, sent, reply, meant, mixed>>
  BY DEF Job, Enter, hist
<1>2. /\ DOMAIN job' = Tasks /\ \A u \in Tasks \ {t} : job'[u] = job[u]
      /\ job'[t] = j
  BY <1>0, <1>1 DEF JobsInv
<1>3. /\ j.op \in {"upsert", "delete", "state"} /\ j.file \in FileIds
      /\ j.op = "upsert" => j.path \in Paths
      /\ j.op = "state" => j.state \in States
  <2>1. CASE j \in ApplyChange
    BY <2>1, FeedJob
  <2>2. ASSUME NEW r \in DOMAIN db.files, NEW s \in {"Syncing", "Synced"},
               j = [op |-> "state", file |-> db.files[r].file, state |-> s]
        PROVE  /\ j.op = "state" /\ j.file \in FileIds /\ j.state \in States
    <3>1. db.files[r].file \in FileIds
      BY <1>0 DEF TablesOK, FilesIn
    <3> QED BY <2>2, <3>1 DEF States
  <2> QED BY <2>1, <2>2
<1>4. TablesOK' /\ LocksOK' /\ OrphansInv' /\ UpdateInv'
  BY <1>0, <1>1, <1>2, QuietStep
<1>5. DOMAIN copy' = Tasks /\ account' \in [DaemonTasks -> AccountIds]
  BY <1>0, <1>1 DEF JobsInv
<1>6. JobsInv'
  BY <1>0, <1>1, <1>2, <1>3, <1>5, JobsStep
<1> QED BY <1>0, <1>1, <1>4, <1>6 DEF HandlerInv, HandlerTypeOK, AnswersOK

\* The SELECT of a job.
LEMMA MountSelectStep ==
    ASSUME HandlerInv, NEW t \in MountTasks, MountSelect(t)
    PROVE  HandlerInv'
<1>0. t \in Tasks /\ t \notin DaemonTasks /\ TablesOK /\ LocksOK /\ AnswersOK /\ JobsInv
  BY HandlerAssumption DEF Tasks, HandlerInv, HandlerTypeOK
<1> DEFINE j == job[t]
           ids == RowsOfFile(db, MountAccount, j.file)
           Row(r) == FileOfRow(db.files[r])
<1>1. stage[t] = "select" /\ UNCHANGED <<db, snapshot, account, reply, sent, meant>>
  BY DEF MountSelect
<1>2. ids \subseteq DOMAIN db.files
  BY RowsExist
<1> HIDE DEF ids
<1>3. ASSUME NEW r \in ids
      PROVE  /\ Row(r) \in FilesIn(States)
             /\ Row(r).account = db.files[r].account /\ Row(r).file = db.files[r].file
             /\ Row(r).path = db.files[r].path
  <2>1. db.files[r] \in FilesIn({StateName(s) : s \in States})
    BY <1>0, <1>2 DEF TablesOK
  <2> QED BY <2>1, FileOfRowIs
<1>4. /\ j.op \in {"upsert", "delete", "state"} /\ j.file \in FileIds
      /\ j.op = "upsert" => j.path \in Paths
      /\ j.op = "state" => j.state \in States
  BY <1>0, <1>1 DEF JobsInv
<1>5. ASSUME NEW id, NEW row \in FilesIn(States), ReadToWrite(t, id, row), UNCHANGED job,
             \/ id = 0
             \/ /\ id \in DOMAIN db.files
                /\ db.files[id].account = row.account /\ db.files[id].file = row.file
                /\ j.op = "state" => row.path = db.files[id].path /\ row.state = j.state
                /\ j.op = "upsert" => row.path = j.path /\ row.state = FileOfRow(db.files[id]).state
      PROVE  HandlerInv'
  <2>1. /\ TablesOK' /\ LocksOK' /\ OrphansInv' /\ UpdateInv' /\ DOMAIN copy' = Tasks
        /\ stage' = [stage EXCEPT ![t] = "write"]
    BY <1>0, <1>1, <1>5, ReadStep
  <2>2. DOMAIN job' = Tasks /\ account' \in [DaemonTasks -> AccountIds] /\ job'[t] = j
    BY <1>0, <1>1, <1>5 DEF JobsInv
  <2>3. JobsInv'
    BY <1>0, <1>1, <1>4, <1>5, <2>1, <2>2, JobsStep
  <2> QED BY <1>0, <1>1, <2>1, <2>3 DEF HandlerInv, HandlerTypeOK, AnswersOK
<1>6. ASSUME j.op = "upsert", NEW r \in ids, ReadToWrite(t, r, [Row(r) EXCEPT !.path = j.path]), UNCHANGED job
      PROVE  HandlerInv'
  <2> DEFINE row == [Row(r) EXCEPT !.path = j.path]
  <2>1. /\ row \in FilesIn(States) /\ row.account = db.files[r].account
        /\ row.file = db.files[r].file /\ row.path = j.path /\ row.state = Row(r).state
    BY <1>3, <1>4, <1>6 DEF FilesIn
  <2>2. ReadToWrite(t, r, row)
    BY <1>6
  <2> HIDE DEF row
  <2> QED BY <1>2, <1>5, <1>6, <2>1, <2>2
<1>7. ASSUME j.op = "upsert", ReadToWrite(t, 0, NewFile(MountAccount, j.file, j.path)), UNCHANGED job
      PROVE  HandlerInv'
  <2>1. NewFile(MountAccount, j.file, j.path) \in FilesIn(States)
    BY <1>4, <1>7, HandlerAssumption DEF NewFile, FilesIn, States
  <2> QED BY <1>5, <1>7, <2>1
<1>8. ASSUME j.op = "delete", NEW r \in ids, ReadToWrite(t, r, Row(r)), UNCHANGED job
      PROVE  HandlerInv'
  BY <1>2, <1>3, <1>5, <1>8
<1>9. ASSUME j.op = "state", NEW r \in ids, ReadToWrite(t, r, [Row(r) EXCEPT !.state = j.state]), UNCHANGED job
      PROVE  HandlerInv'
  <2> DEFINE row == [Row(r) EXCEPT !.state = j.state]
  <2>1. /\ row \in FilesIn(States) /\ row.account = db.files[r].account
        /\ row.file = db.files[r].file /\ row.path = db.files[r].path /\ row.state = j.state
    BY <1>3, <1>4, <1>9 DEF FilesIn
  <2>2. ReadToWrite(t, r, row)
    BY <1>9
  <2> HIDE DEF row
  <2> QED BY <1>2, <1>5, <1>9, <2>1, <2>2
<1>10. ASSUME ReadOnly(t), JobEnds(t) PROVE HandlerInv'
  <2>1. /\ stage' = [stage EXCEPT ![t] = "idle"] /\ UNCHANGED <<mutex, copy, mixed>>
        /\ DOMAIN job' = Tasks /\ \A u \in Tasks \ {t} : job'[u] = job[u]
    BY <1>0, <1>10 DEF ReadOnly, JobEnds, Enter, JobsInv
  <2>2. TablesOK' /\ LocksOK' /\ OrphansInv' /\ UpdateInv'
    BY <1>0, <1>1, <2>1, QuietStep
  <2>3. DOMAIN copy' = Tasks /\ account' \in [DaemonTasks -> AccountIds]
    BY <1>0, <1>1, <2>1 DEF JobsInv
  <2>4. JobsInv'
    BY <1>0, <1>1, <2>1, <2>3, JobsStep
  <2> QED BY <1>0, <1>1, <2>2, <2>4 DEF HandlerInv, HandlerTypeOK, AnswersOK
<1> QED BY <1>6, <1>7, <1>8, <1>9, <1>10 DEF MountSelect, ids

\* The INSERT, UPDATE or DELETE of a job, or its failure.
LEMMA MountWriteStep ==
    ASSUME HandlerInv, NEW t \in MountTasks, MountWrite(t)
    PROVE  HandlerInv'
<1>0. /\ t \in Tasks /\ t \notin DaemonTasks /\ TablesOK /\ LocksOK /\ AnswersOK /\ JobsInv
      /\ OrphansInv /\ UpdateInv
  BY HandlerAssumption DEF Tasks, HandlerInv, HandlerTypeOK
<1> DEFINE j == job[t]
           c == copy[t]
           was == IF c.id \in DOMAIN meant THEN meant[c.id] ELSE [path |-> <<>>, state |-> "none"]
<1>1. /\ stage[t] = "write" /\ Released(t) /\ stage' = [stage EXCEPT ![t] = "idle"]
      /\ UNCHANGED <<snapshot, account, reply, sent, mixed>>
      /\ DOMAIN job' = Tasks /\ \A u \in Tasks \ {t} : job'[u] = job[u]
  BY <1>0 DEF MountWrite, JobEnds, Enter, JobsInv
<1>2. /\ DOMAIN copy' = Tasks
      /\ \A u \in Tasks : \/ stage'[u] = "write" /\ stage[u] = "write" /\ copy'[u] = copy[u] /\ job'[u] = job[u]
                          \/ stage'[u] # "write" /\ copy'[u].id = 0
      /\ LocksOK'
  BY <1>0, <1>1, ReleaseStep
<1>3. JobsInv'
  <2>1. account' \in [DaemonTasks -> AccountIds]
    BY <1>0, <1>1 DEF JobsInv
  <2> QED BY <1>0, <1>1, <1>2, <2>1, JobsStep
<1>4. AnswersOK'
  BY <1>0, <1>1 DEF AnswersOK
<1>5. ASSUME TablesOK', OrphansInv', UpdateInv' PROVE HandlerInv'
  BY <1>2, <1>3, <1>4, <1>5 DEF HandlerInv, HandlerTypeOK
<1>6. /\ j.op = "upsert" => j.path \in Paths
      /\ j.op = "state" => j.state \in States
  BY <1>0, <1>1 DEF JobsInv
<1>7. c.id \in DOMAIN db.files => was = meant[c.id] /\ was.path \in Paths /\ was.state \in States
  BY <1>0 DEF UpdateInv
<1>8. c.id \in DOMAIN db.files \ mixed =>
        /\ j.op = "state" => c.row.path = was.path /\ c.row.state = j.state
        /\ j.op = "upsert" => c.row.path = j.path /\ c.row.state = was.state
  BY <1>0, <1>1, <1>7 DEF UpdateInv
<1> HIDE DEF was
<1>9. ASSUME ~ FileConflicts(db, c.row), Stored(create_file(db, c.row), db.next, c.row.path, c.row.state)
      PROVE  HandlerInv'
  BY <1>0, <1>1, <1>5, <1>9, CreateStep
<1>10. ASSUME j.op = "upsert", Stored(update_file(db, c.id, c.row), c.id, j.path, was.state)
      PROVE  HandlerInv'
  BY <1>0, <1>1, <1>5, <1>6, <1>7, <1>8, <1>10, UpdateStep
<1>11. ASSUME j.op = "state", Stored(update_file(db, c.id, c.row), c.id, was.path, j.state)
      PROVE  HandlerInv'
  BY <1>0, <1>1, <1>5, <1>6, <1>7, <1>8, <1>11, UpdateStep
<1>12. ASSUME Stored(delete_file(db, c.id), 0, <<>>, "none") PROVE HandlerInv'
  <2>1. /\ DOMAIN db' = {"accounts", "files", "cursors", "next"}
        /\ db'.accounts = db.accounts /\ db'.cursors = db.cursors /\ db'.next = db.next
        /\ db'.files = Without(db.files, {c.id})
    <3>1. db' = delete_file(db, c.id) /\ DOMAIN db = {"accounts", "files", "cursors", "next"}
      BY <1>0, <1>12 DEF Stored, TablesOK
    <3> QED BY <3>1, FileStatements
  <2>2. /\ DOMAIN db'.files \subseteq DOMAIN db.files
        /\ db'.files = [r \in DOMAIN db'.files |-> db.files[r]]
    BY <2>1 DEF Without
  <2>3. 0 \notin DOMAIN db'.files
    BY <1>0, <2>2 DEF TablesOK
  <2>4. meant' = [r \in DOMAIN db'.files |-> meant[r]]
    BY <1>12, <2>3 DEF Stored
  <2>5. NoOrphans' /\ DOMAIN db'.accounts \subseteq AccountIds
    <3>1. \A r \in DOMAIN db'.files : r \in DOMAIN db.files /\ db'.files[r] = db.files[r]
      BY <2>2
    <3> QED BY <1>0, <2>1, <3>1 DEF OrphansInv, NoOrphans, HasAccount, TablesOK
  <2> QED BY <1>1, <1>2, <1>5, <2>1, <2>2, <2>4, <2>5, DropStep
<1>13. ASSUME UNCHANGED <<db, meant>> PROVE HandlerInv'
  <2>1. /\ db'.files = [r \in DOMAIN db'.files |-> db.files[r]]
        /\ meant' = [r \in DOMAIN db'.files |-> meant[r]]
    BY <1>0, <1>13 DEF TablesOK, UpdateInv
  <2>2. NoOrphans'
    BY <1>0, <1>13 DEF OrphansInv, NoOrphans
  <2> QED BY <1>0, <1>1, <1>2, <1>5, <1>13, <2>1, <2>2, DropStep DEF TablesOK
<1> QED BY <1>9, <1>10, <1>11, <1>12, <1>13 DEF MountWrite, was

\* A statement of the account tool or of SaveCursor: the tasks stay where they are, and
\* rows are at most dropped.
LEMMA StatementStep ==
    ASSUME HandlerInv, UNCHANGED <<snapshot, mutex, stage, job, account, copy, reply, sent, mixed>>,
           DOMAIN db' = {"accounts", "files", "cursors", "next"}, db'.next = db.next,
           DOMAIN db'.accounts \subseteq AccountIds, NoOrphans',
           DOMAIN db'.files \subseteq DOMAIN db.files,
           db'.files = [r \in DOMAIN db'.files |-> db.files[r]],
           meant' = [r \in DOMAIN db'.files |-> meant[r]]
    PROVE  HandlerInv'
<1>0. LocksOK /\ AnswersOK /\ OrphansInv /\ JobsInv
  BY DEF HandlerInv, HandlerTypeOK
<1>1. \A u \in Tasks : \/ stage'[u] = "write" /\ stage[u] = "write" /\ copy'[u] = copy[u] /\ job'[u] = job[u]
                       \/ stage'[u] # "write" /\ copy'[u].id = 0
  BY <1>0 DEF OrphansInv
<1>2. TablesOK' /\ OrphansInv' /\ UpdateInv'
  BY <1>1, DropStep
<1>3. LocksOK' /\ AnswersOK'
  BY <1>0 DEF LocksOK, AnswersOK
<1>4. JobsInv'
  BY <1>0 DEF JobsInv
<1> QED BY <1>2, <1>3, <1>4 DEF HandlerInv, HandlerTypeOK

\* The account tool and the cursor.
LEMMA AdminStep ==
    ASSUME HandlerInv,
           \/ SaveCursor
           \/ \E id \in AccountIds : \/ \E p \in Providers, e \in Emails : AddAccount(id, p, e)
                                     \/ \E active \in BOOLEAN : SetActive(id, active)
                                     \/ RemoveAccount(id)
                                     \/ Reset(id)
    PROVE  HandlerInv'
<1>0. TablesOK /\ NoOrphans /\ UpdateInv
  BY DEF HandlerInv, HandlerTypeOK, OrphansInv
<1>1. DOMAIN db = {"accounts", "files", "cursors", "next"} /\ DOMAIN db.accounts \subseteq AccountIds
  BY <1>0 DEF TablesOK
<1>2. db.files = [r \in DOMAIN db.files |-> db.files[r]] /\ meant = [r \in DOMAIN db.files |-> meant[r]]
  BY <1>0 DEF TablesOK, UpdateInv
<1>3. CASE SaveCursor
  <2>1. /\ UNCHANGED <<snapshot, mutex, stage, job, account, copy, reply, sent, mixed, meant>>
        /\ HasAccount(db, MountAccount) /\ db' = upsert_cursor(db, MountAccount, jobs')
    BY <1>3 DEF SaveCursor, CursorConflicts, ForeignKeys, hist
  <2>2. /\ DOMAIN db' = DOMAIN db /\ db'.accounts = db.accounts /\ db'.files = db.files
        /\ db'.cursors = With(db.cursors, MountAccount, jobs') /\ db'.next = db.next
    BY <1>1, <2>1 DEF upsert_cursor
  <2>3. NoOrphans'
    BY <1>0, <2>1, <2>2 DEF NoOrphans, HasAccount, With
  <2> QED BY <1>1, <1>2, <2>1, <2>2, <2>3, StatementStep
<1>4. ASSUME NEW after, Admin(after), DOMAIN after = DOMAIN db, after.next = db.next,
             DOMAIN after.accounts \subseteq AccountIds,
             DOMAIN after.files \subseteq DOMAIN db.files,
             after.files = [r \in DOMAIN after.files |-> db.files[r]],
             \A r \in DOMAIN after.files : db.files[r].account \in DOMAIN after.accounts,
             DOMAIN after.cursors \subseteq DOMAIN after.accounts
      PROVE  HandlerInv'
  <2>1. /\ UNCHANGED <<snapshot, mutex, stage, job, account, copy, reply, sent, mixed>>
        /\ db' = after /\ meant' = [r \in DOMAIN after.files |-> meant[r]]
    BY <1>4 DEF Admin
  <2>2. \A r \in DOMAIN after.files : after.files[r] = db.files[r]
    BY <1>4
  <2>3. NoOrphans'
    BY <1>4, <2>1, <2>2 DEF NoOrphans, HasAccount
  <2> QED BY <1>1, <1>4, <2>1, <2>3, StatementStep
<1>5. /\ \A r \in DOMAIN db.files : db.files[r].account \in DOMAIN db.accounts
      /\ DOMAIN db.cursors \subseteq DOMAIN db.accounts
  BY <1>0 DEF NoOrphans, HasAccount
<1>6. ASSUME NEW id \in AccountIds, NEW p \in Providers, NEW e \in Emails, AddAccount(id, p, e)
      PROVE  HandlerInv'
  <2>0. PICK now \in 0..admin + 1 : Admin(create_account(db, id, NewAccount(p, e, now)))
    BY <1>6 DEF AddAccount
  <2> DEFINE a == NewAccount(p, e, now)
             after == create_account(db, id, a)
  <2>1. Admin(after)
    BY <2>0
  <2>2. /\ DOMAIN after = DOMAIN db /\ after.accounts = With(db.accounts, id, a)
        /\ after.files = db.files /\ after.cursors = db.cursors /\ after.next = db.next
    BY <1>1, AccountStatements
  <2> HIDE DEF a, after
  <2>3. DOMAIN after.accounts = DOMAIN db.accounts \cup {id}
    BY <2>2 DEF With
  <2> QED BY <1>1, <1>2, <1>4, <1>5, <2>1, <2>2, <2>3
<1>7. ASSUME NEW id \in AccountIds, NEW active \in BOOLEAN, SetActive(id, active) PROVE HandlerInv'
  <2> DEFINE after == update_account(db, id, active)
  <2>1. Admin(after)
    BY <1>7 DEF SetActive
  <2>2. /\ DOMAIN after = DOMAIN db /\ DOMAIN after.accounts = DOMAIN db.accounts
        /\ after.files = db.files /\ after.cursors = db.cursors /\ after.next = db.next
    BY <1>1, AccountStatements
  <2> HIDE DEF after
  <2> QED BY <1>1, <1>2, <1>4, <1>5, <2>1, <2>2
<1>8. ASSUME NEW id \in AccountIds, RemoveAccount(id) PROVE HandlerInv'
  <2> DEFINE after == delete_account(db, id)
             gone == {r \in DOMAIN db.files : db.files[r].account = id}
  <2>1. Admin(after)
    BY <1>8 DEF RemoveAccount
  <2>2. /\ DOMAIN after = DOMAIN db /\ after.accounts = Without(db.accounts, {id})
        /\ after.files = Without(db.files, gone)
        /\ after.cursors = Without(db.cursors, {id}) /\ after.next = db.next
    BY <1>1 DEF delete_account, ForeignKeys
  <2> HIDE DEF after
  <2>3. /\ DOMAIN after.accounts = DOMAIN db.accounts \ {id}
        /\ DOMAIN after.files = DOMAIN db.files \ gone
        /\ after.files = [r \in DOMAIN after.files |-> db.files[r]]
        /\ DOMAIN after.cursors = DOMAIN db.cursors \ {id}
    BY <2>2 DEF Without
  <2> QED BY <1>1, <1>4, <1>5, <2>1, <2>2, <2>3
<1>9. ASSUME NEW id \in AccountIds, Admin(delete_files_by_account(db, id)) PROVE HandlerInv'
  <2> DEFINE after == delete_files_by_account(db, id)
             gone == {r \in DOMAIN db.files : db.files[r].account = id}
  <2>1. Admin(after)
    BY <1>9
  <2>2. /\ DOMAIN after = DOMAIN db /\ after.accounts = db.accounts
        /\ after.files = Without(db.files, gone)
        /\ after.cursors = db.cursors /\ after.next = db.next
    BY <1>1 DEF delete_files_by_account
  <2> HIDE DEF after
  <2>3. /\ DOMAIN after.files = DOMAIN db.files \ gone
        /\ after.files = [r \in DOMAIN after.files |-> db.files[r]]
    BY <2>2 DEF Without
  <2> QED BY <1>1, <1>4, <1>5, <2>1, <2>2, <2>3
<1>10. ASSUME NEW id \in AccountIds, Admin(delete_cursor(db, id)) PROVE HandlerInv'
  <2> DEFINE after == delete_cursor(db, id)
  <2>1. Admin(after)
    BY <1>10
  <2>2. /\ DOMAIN after = DOMAIN db /\ after.accounts = db.accounts
        /\ after.files = db.files
        /\ after.cursors = Without(db.cursors, {id}) /\ after.next = db.next
    BY <1>1, DeleteCursorStatement
  <2> HIDE DEF after
  <2>3. DOMAIN after.cursors = DOMAIN db.cursors \ {id}
    BY <2>2 DEF Without
  <2> QED BY <1>1, <1>2, <1>4, <1>5, <2>1, <2>2, <2>3
<1> QED BY <1>3, <1>6, <1>7, <1>8, <1>9, <1>10 DEF Reset

\* What main reads of the accounts.
LEMMA SnapshotAccounts ==
    ASSUME NEW d, DOMAIN d.accounts \subseteq AccountIds, NEW s \in ProviderAccounts(d)
    PROVE  \A i \in DOMAIN s : s[i].account \in AccountIds
<1>1. PICK ids \in list_accounts(d) :
        s = [i \in DOMAIN ids |-> [slug |-> as_str(FromRow(d.accounts[ids[i]].provider)),
                                   account |-> ids[i]]]
  BY DEF ProviderAccounts
<1>2. \A i \in DOMAIN ids : ids[i] \in AccountIds
  BY DEF list_accounts
<1> QED BY <1>1, <1>2

\* The daemon is started again.
LEMMA RestartDaemonStep ==
    ASSUME HandlerInv, NEW ok \in BOOLEAN, RestartDaemon(ok)
    PROVE  HandlerInv'
<1>0. /\ TablesOK /\ LocksOK /\ AnswersOK /\ JobsInv /\ OrphansInv /\ UpdateInv
      /\ DaemonTasks \subseteq Tasks /\ MountTasks \subseteq Tasks
  BY DEF HandlerInv, HandlerTypeOK, Tasks
<1>1. /\ mutex' = [mutex EXCEPT !["daemon"] = Free]
      /\ stage' = [t \in Tasks |-> IF t \in DaemonTasks THEN "idle" ELSE stage[t]]
      /\ job' = [t \in Tasks |-> IF t \in DaemonTasks THEN Idle ELSE job[t]]
      /\ copy' = [t \in Tasks |-> IF t \in DaemonTasks THEN NoCopy ELSE copy[t]]
      /\ reply' = [t \in DaemonTasks |-> "none"]
      /\ UNCHANGED <<db, account, sent, meant, mixed>>
      /\ snapshot' \in IF ok THEN ProviderAccounts(db) ELSE {<<>>}
  BY DEF RestartDaemon
<1>2. LocksOK'
  <2>1. \A t \in Tasks : Process(t) = IF t \in DaemonTasks THEN "daemon" ELSE "mount"
    BY DEF Process
  <2> QED BY <1>0, <1>1, <2>1, HandlerAssumption DEF LocksOK
<1>3. AnswersOK'
  BY <1>0, <1>1 DEF AnswersOK
<1>4. NoCopy.id = 0
  BY DEF NoCopy
<1>5. \A u \in Tasks : \/ stage'[u] = "write" /\ stage[u] = "write" /\ copy'[u] = copy[u] /\ job'[u] = job[u]
                       \/ stage'[u] # "write" /\ copy'[u].id = 0
  BY <1>0, <1>1, <1>4 DEF OrphansInv
<1>6. TablesOK' /\ OrphansInv' /\ UpdateInv'
  <2>1. /\ db'.files = [r \in DOMAIN db'.files |-> db.files[r]]
        /\ meant' = [r \in DOMAIN db'.files |-> meant[r]]
    BY <1>0, <1>1 DEF TablesOK, UpdateInv
  <2>2. NoOrphans'
    BY <1>0, <1>1 DEF OrphansInv, NoOrphans
  <2> QED BY <1>0, <1>1, <1>5, <2>1, <2>2, DropStep DEF TablesOK
<1>7. \A i \in DOMAIN snapshot' : snapshot'[i].account \in AccountIds
  <2>1. CASE snapshot' \in ProviderAccounts(db)
    BY <1>0, <2>1, SnapshotAccounts DEF TablesOK
  <2>2. CASE snapshot' = <<>>
    BY <2>2
  <2> QED BY <1>1, <2>1, <2>2
<1>8. JobsInv'
  <2>1. \A t \in DaemonTasks : stage'[t] = "idle"
    BY <1>0, <1>1
  <2>2. \A t \in MountTasks : stage'[t] = stage[t] /\ job'[t] = job[t]
    BY <1>0, <1>1, HandlerAssumption
  <2> QED BY <1>0, <1>1, <1>7, <2>1, <2>2 DEF JobsInv
<1> QED BY <1>2, <1>3, <1>6, <1>8 DEF HandlerInv, HandlerTypeOK

-----------------------------------------------------------------------------
(* The handler: the invariant and what follows from it.                    *)

\* The initial states satisfy the invariant.
LEMMA HandlerInitInv == HandlerInit => HandlerInv
<1> SUFFICES ASSUME HandlerInit PROVE HandlerInv
  OBVIOUS
<1>1. PICK p \in Providers, e \in Emails :
        db = create_account(EmptyTables, MountAccount, NewAccount(p, e, 0))
  BY DEF HandlerInit
<1>2. /\ DOMAIN EmptyTables = {"accounts", "files", "cursors", "next"} /\ EmptyTables.next = 1
      /\ EmptyTables.accounts = <<>> /\ EmptyTables.files = <<>> /\ EmptyTables.cursors = <<>>
  BY DEF EmptyTables
<1>3. DOMAIN <<>> = {}
  OBVIOUS
<1>4. /\ DOMAIN db = {"accounts", "files", "cursors", "next"} /\ db.next = 1
      /\ db.accounts = With(<<>>, MountAccount, NewAccount(p, e, 0))
      /\ db.files = <<>> /\ db.cursors = <<>>
  BY <1>1, <1>2, AccountStatements
<1>5. DOMAIN db.accounts = {MountAccount} /\ DOMAIN db.files = {} /\ DOMAIN db.cursors = {}
  BY <1>3, <1>4 DEF With
<1>6. TablesOK
  BY <1>4, <1>5, HandlerAssumption DEF TablesOK
<1>7. \A t \in Tasks : Process(t) \in {"daemon", "mount"}
  BY DEF Process
<1>8. LocksOK
  BY <1>7, HandlerAssumption DEF HandlerInit, LocksOK
<1>9. AnswersOK
  BY DEF HandlerInit, AnswersOK
<1>10. NoCopy.id = 0
  BY DEF NoCopy
<1>11. OrphansInv
  BY <1>5, <1>10 DEF HandlerInit, OrphansInv, NoOrphans
<1>12. JobsInv
  <2>1. \A i \in DOMAIN snapshot : snapshot[i].account \in AccountIds
    BY <1>6, SnapshotAccounts DEF HandlerInit, TablesOK
  <2> QED BY <2>1, HandlerAssumption DEF HandlerInit, JobsInv, Tasks
<1>13. UpdateInv
  <2>1. meant \in [DOMAIN db.files -> [path : Paths, state : States]]
    BY <1>3, <1>5 DEF HandlerInit
  <2> QED BY <1>5, <1>10, <2>1 DEF HandlerInit, UpdateInv, NoLostUpdate
<1> QED BY <1>6, <1>8, <1>9, <1>11, <1>12, <1>13 DEF HandlerInv, HandlerTypeOK

\* Every step keeps the invariant.
LEMMA HandlerStep == HandlerInv /\ [HandlerNext]_handlerVars => HandlerInv'
<1> SUFFICES ASSUME HandlerInv, [HandlerNext]_handlerVars PROVE HandlerInv'
  OBVIOUS
<1>1. CASE UNCHANGED handlerVars
  <2>1. UNCHANGED <<db, snapshot, mutex, stage, job, account, copy, reply, sent, meant, mixed>>
    BY <1>1 DEF handlerVars, hist
  <2> QED BY <2>1 DEF HandlerInv, HandlerTypeOK, TablesOK, LocksOK, AnswersOK, OrphansInv, NoOrphans,
                      JobsInv, UpdateInv, NoLostUpdate
<1>2. ASSUME NEW t \in DaemonTasks, NEW op \in FileRequests, NEW p \in Locals, Request(t, op, <<p>>)
      PROVE  HandlerInv'
  <2>1. <<p>> \in Seq(Locals) \ {<<>>}
    OBVIOUS
  <2> QED BY <1>2, <2>1, RequestStep
<1>3. ASSUME NEW t \in DaemonTasks, NEW p \in Locals, NEW q \in Locals,
             Request(t, "GetStatusBatch", <<p, q>>)
      PROVE  HandlerInv'
  <2>1. <<p, q>> \in Seq(Locals) \ {<<>>}
    OBVIOUS
  <2> QED BY <1>3, <2>1, RequestStep
<1>4. ASSUME NEW t \in DaemonTasks, NEW kind \in {"Pause", "Resume"}, NEW slug,
             PauseOrResume(t, kind, slug) \/ Ping(t)
      PROVE  HandlerInv'
  BY <1>4, RequestStep
<1>5. ASSUME NEW t \in DaemonTasks, Resolve(t) \/ ForceSync(t) \/ Select(t) \/ Update(t)
      PROVE  HandlerInv'
  BY <1>5, ResolveStep, SelectStep, DaemonUpdateStep
<1>6. ASSUME NEW t \in MountTasks,
             \/ \E j \in ApplyChange : Job(t, j)
             \/ \E r \in DOMAIN db.files, s \in {"Syncing", "Synced"} :
                    Job(t, [op |-> "state", file |-> db.files[r].file, state |-> s])
      PROVE  HandlerInv'
  BY <1>6, JobStep
<1>7. ASSUME NEW t \in MountTasks, MountSelect(t) \/ MountWrite(t) PROVE HandlerInv'
  BY <1>7, MountSelectStep, MountWriteStep
<1>8. CASE \/ SaveCursor
           \/ \E id \in AccountIds : \/ \E p \in Providers, e \in Emails : AddAccount(id, p, e)
                                     \/ \E active \in BOOLEAN : SetActive(id, active)
                                     \/ RemoveAccount(id)
                                     \/ Reset(id)
  BY <1>8, AdminStep
<1>9. ASSUME NEW ok \in BOOLEAN, RestartDaemon(ok) PROVE HandlerInv'
  BY <1>9, RestartDaemonStep
<1> QED BY <1>1, <1>2, <1>3, <1>4, <1>5, <1>6, <1>7, <1>8, <1>9, Zenon DEF HandlerNext

\* The invariant holds of the specification.
LEMMA HandlerHolds == HandlerSpec => []HandlerInv
BY HandlerInitInv, HandlerStep, PTL DEF HandlerSpec

\* HandlerTypeOK: the rows are well formed and unique per account and file, a closure of
\* with_conn that will write holds its process's connection, and requests are answered
\* and passed on only as what they may be.
THEOREM HandlerTypes == HandlerSpec => []HandlerTypeOK
<1>1. HandlerInv => HandlerTypeOK
  BY DEF HandlerInv
<1> QED BY <1>1, HandlerHolds, PTL

\* NoOrphans: no file and no cursor of an account that has been deleted.
THEOREM OrphansSafety == HandlerSpec => []NoOrphans
<1>1. HandlerInv => NoOrphans
  BY DEF HandlerInv, OrphansInv
<1> QED BY <1>1, HandlerHolds, PTL

\* NoLostUpdate: update_file's write of every column loses nothing that was last stored,
\* unless closures of both processes had read the row at the same time.
THEOREM UpdateSafety == HandlerSpec => []NoLostUpdate
<1>1. HandlerInv => NoLostUpdate
  BY DEF HandlerInv, UpdateInv
<1> QED BY <1>1, HandlerHolds, PTL

-----------------------------------------------------------------------------
(* Paths.  What is shown of all paths by induction is shown of the least   *)
(* length at which it would fail.                                          *)

\* A set of natural numbers that is not empty has a least element.
LEMMA LeastElement ==
    ASSUME NEW T, T \subseteq Nat, T # {}
    PROVE  \E x \in T : \A y \in T : x <= y
<1> DEFINE R == OpToRel(<, Nat)
<1>1. \A y, x \in Nat : y < x => <<y, x>> \in R
  BY DEF OpToRel
<1>2. IsWellFoundedOn(R, Nat)
  BY NatLessThanWellFounded
<1> HIDE DEF R
<1>3. PICK x \in T : \A y \in T : ~ (<<y, x>> \in R)
  BY <1>2, WFMin
<1>4. ASSUME NEW y \in T PROVE x <= y
  <2>1. ~ (y < x)
    BY <1>1, <1>3
  <2> QED BY <2>1
<1> QED BY <1>4

\* The path up to its ith part.
LEMMA NextPart ==
    ASSUME NEW Part, NEW p \in Seq(Part), NEW i \in 1..Len(p)
    PROVE  /\ i # 1 => SubSeq(p, 1, i) = SubSeq(p, 1, i - 1) \o <<p[i]>>
           /\ SubSeq(p, 1, 1) = <<p[1]>>
<1>1. p[i] \in Part /\ Len(p) \in Nat /\ p[1] \in Part
  OBVIOUS
<1>2. ASSUME i # 1 PROVE SubSeq(p, 1, i) = SubSeq(p, 1, i - 1) \o <<p[i]>>
  <2> DEFINE q == SubSeq(p, 1, i - 1)
  <2>1. q \in Seq(Part) /\ Len(q) = i - 1 /\ \A k \in 1..i - 1 : q[k] = p[k]
    BY <1>2
  <2>2. SubSeq(p, 1, i) \in Seq(Part) /\ Len(SubSeq(p, 1, i)) = i /\ \A k \in 1..i : SubSeq(p, 1, i)[k] = p[k]
    BY <1>1
  <2> HIDE DEF q
  <2>3. /\ q \o <<p[i]>> \in Seq(Part) /\ Len(q \o <<p[i]>>) = i
        /\ \A k \in 1..i : (q \o <<p[i]>>)[k] = p[k]
    BY <1>1, <1>2, <2>1
  <2>4. SubSeq(p, 1, i) = q \o <<p[i]>>
    BY <2>2, <2>3, SeqEqual
  <2> QED BY <2>4, Zenon DEF q
<1>3. SubSeq(p, 1, 1) = <<p[1]>>
  <2>1. SubSeq(p, 1, 1) \in Seq(Part) /\ Len(SubSeq(p, 1, 1)) = 1 /\ SubSeq(p, 1, 1)[1] = p[1]
    BY <1>1
  <2>2. <<p[1]>> \in Seq(Part) /\ Len(<<p[1]>>) = 1 /\ <<p[1]>>[1] = p[1]
    BY <1>1
  <2>3. \A k \in 1..1 : SubSeq(p, 1, 1)[k] = <<p[1]>>[k]
    BY <2>1, <2>2
  <2> QED BY <2>1, <2>2, <2>3, SeqEqual
<1> QED BY <1>2, <1>3

\* What becomes of names that have one part each: induction by the least i at which the
\* result is not yet the path up to i.
LEMMA FlattenSingletons ==
    ASSUME NEW Part, NEW p \in Seq(Part)
    PROVE  FlattenSeq([i \in 1..Len(p) |-> <<p[i]>>]) = p
<1> DEFINE n == Len(p)
           s == [i \in 1..n |-> <<p[i]>>]
           F(f) == [i \in 1..n |-> IF i = 1 THEN s[i] ELSE f[i - 1] \o s[i]]
           g == [i \in 1..n |-> SubSeq(p, 1, i)]
           h == CHOOSE f : f = F(f)
<1>1. n \in Nat /\ s \in Seq(Seq(Part)) /\ Len(s) = n
  OBVIOUS
<1>2. CASE n = 0
  BY <1>1, <1>2 DEF FlattenSeq
<1>3. CASE n # 0
  <2>1. FlattenSeq(s) = h[n]
    BY <1>1, <1>3 DEF FlattenSeq
  <2>2. \A i \in 1..n : g[i] = IF i = 1 THEN <<p[i]>> ELSE g[i - 1] \o <<p[i]>>
    <3>1. ASSUME NEW i \in 1..n PROVE g[i] = IF i = 1 THEN <<p[i]>> ELSE g[i - 1] \o <<p[i]>>
      <4>1. g[i] = SubSeq(p, 1, i) /\ (i # 1 => g[i - 1] = SubSeq(p, 1, i - 1))
        BY <1>1
      <4>2. /\ i # 1 => SubSeq(p, 1, i) = SubSeq(p, 1, i - 1) \o <<p[i]>>
            /\ SubSeq(p, 1, 1) = <<p[1]>>
        BY NextPart
      <4> HIDE DEF g
      <4> QED BY <4>1, <4>2
    <3> HIDE DEF g
    <3> QED BY <3>1
  <2>3. g = F(g)
    BY <2>2
  <2>4. h = F(h)
    <3> HIDE DEF F, g
    <3> QED BY <2>3
  <2>5. \A i \in 1..n : h[i] = IF i = 1 THEN <<p[i]>> ELSE h[i - 1] \o <<p[i]>>
    <3> HIDE DEF h
    <3> QED BY <2>4
  <2> HIDE DEF h, g
  <2>6. \A i \in 1..n : h[i] = g[i]
    <3> DEFINE bad == {i \in 1..n : h[i] # g[i]}
    <3>1. SUFFICES ASSUME bad # {} PROVE FALSE
      OBVIOUS
    <3>2. bad \subseteq Nat
      OBVIOUS
    <3>3. PICK i \in bad : \A j \in bad : i <= j
      <4> HIDE DEF bad
      <4> QED BY <3>1, <3>2, LeastElement
    <3>4. i # 1 => i - 1 \in 1..n /\ i - 1 \notin bad
      BY <3>3
    <3>5. i # 1 => h[i - 1] = g[i - 1]
      BY <3>4
    <3>6. h[i] = g[i]
      BY <2>2, <2>5, <3>5
    <3> QED BY <3>6
  <2>7. g[n] = p
    BY <1>1, <1>3 DEF g
  <2> QED BY <1>1, <1>3, <2>1, <2>6, <2>7
<1> QED BY <1>2, <1>3

\* A path of which every name counts is its own components.
LEMMA AllComponents ==
    ASSUME NEW M, NEW s \in Seq(M), \A i \in 1..Len(s) : s[i] \notin Ignored
    PROVE  components(s) = s
<1> DEFINE n == Len(s)
           kept == {i \in DOMAIN s : s[i] \notin Ignored}
<1>1. n \in Nat /\ DOMAIN s = 1..n /\ kept = 1..n
  OBVIOUS
<1>2. \A i \in 0..n : Cardinality(1..i) = i
  <2>1. ASSUME NEW i \in 0..n PROVE Cardinality(1..i) = i
    <3>1. Cardinality(1..i) = IF 1 > i THEN 0 ELSE i - 1 + 1
      BY <1>1, FS_Interval
    <3> QED BY <1>1, <3>1
  <2> QED BY <2>1
<1>3. Cardinality(kept) = n
  <2>1. n \in 0..n
    BY <1>1
  <2> HIDE DEF kept, n
  <2> QED BY <1>1, <1>2, <2>1
<1>4. ASSUME NEW k \in 1..n
      PROVE  (CHOOSE i \in kept : Cardinality(kept \cap 1..i) = k) = k
  <2>1. \A i \in kept : kept \cap 1..i = 1..i /\ i \in 0..n
    BY <1>1
  <2>2. \A i \in kept : Cardinality(kept \cap 1..i) = k <=> i = k
    <3> HIDE DEF kept, n
    <3> QED BY <1>2, <2>1
  <2>3. k \in kept
    BY <1>1
  <2> HIDE DEF kept
  <2> QED BY <2>2, <2>3
<1>5. components(s) = [k \in 1..n |-> s[k]]
  <2>1. components(s) = [k \in 1..Cardinality(kept) |->
                            s[CHOOSE i \in kept : Cardinality(kept \cap 1..i) = k]]
    BY DEF components
  <2> HIDE DEF kept
  <2> QED BY <1>3, <1>4, <2>1
<1> QED BY <1>1, <1>5

\* resolve_local undoes to_local, for any sync root and any path, however long, whose
\* parts are neither empty nor ".": whatever other local path has the same components is
\* resolved to the path, too.
LEMMA ResolveUndoesToLocal ==
    ASSUME NEW N, NEW root \in Seq(N), \A i \in 1..Len(root) : root[i] \notin Ignored,
           NEW slug, slug \notin Ignored, NEW Part, NEW p \in Seq(Part), Proper(p),
           NEW given, components(given) = to_local(root, slug, p)
    PROVE  LET r == resolve_local(root, given)
           IN  r.inside /\ r.provider_slug = slug /\ r.cloud_path = p
<1> DEFINE s == [i \in 1..Len(p) |-> <<p[i]>>]
           n == Len(root)
           local == root \o <<slug>> \o s
           M == N \cup {slug} \cup Seq(Part)
<1>1. root \in Seq(M) /\ <<slug>> \in Seq(M) /\ s \in Seq(M) /\ Len(s) = Len(p)
  OBVIOUS
<1>2. local \in Seq(M) /\ Len(local) = n + 1 + Len(p) /\ n \in Nat /\ Len(p) \in Nat
  BY <1>1
<1>3. /\ \A i \in 1..n : local[i] = root[i]
      /\ local[n + 1] = slug
      /\ \A i \in 1..Len(p) : local[n + 1 + i] = s[i]
  BY <1>1
<1> HIDE DEF local, s
<1>4. IsPrefix(root, local)
  <2>1. /\ SubSeq(local, 1, n) \in Seq(M) /\ Len(SubSeq(local, 1, n)) = n
        /\ \A i \in 1..n : SubSeq(local, 1, n)[i] = local[i]
    BY <1>2
  <2>2. /\ SubSeq(root, 1, n) \in Seq(M) /\ Len(SubSeq(root, 1, n)) = n
        /\ \A i \in 1..n : SubSeq(root, 1, n)[i] = root[i]
    BY <1>1, <1>2
  <2>3. SubSeq(root, 1, n) = SubSeq(local, 1, n)
    BY <1>3, <2>1, <2>2, SeqEqual
  <2> QED BY <1>2, <2>3 DEF IsPrefix
<1>5. SubSeq(local, n + 2, Len(local)) = s
  <2> DEFINE rest == SubSeq(local, n + 2, Len(local))
  <2>1. rest \in Seq(M) /\ Len(rest) = Len(p)
    BY <1>2
  <2>2. \A i \in 1..Len(p) : rest[i] = local[n + 1 + i]
    BY <1>2
  <2> HIDE DEF rest
  <2> QED BY <1>1, <1>3, <2>1, <2>2, SeqEqual DEF rest
<1>6. CloudPath(s) = p
  <2>1. FlattenSeq(s) = p
    BY FlattenSingletons DEF s
  <2>2. p # <<Empty>>
    <3>1. ASSUME p = <<Empty>> PROVE FALSE
      <4>1. Len(p) = Len(<<Empty>>) /\ p[1] = <<Empty>>[1]
        BY <3>1, Zenon
      <4>2. 1 \in DOMAIN p /\ p[1] = Empty
        BY <4>1
      <4> QED BY <4>2 DEF Proper
    <3> QED BY <3>1
  <2> QED BY <2>1, <2>2 DEF CloudPath, OfParts
<1>7. components(given) = local
  <2>1. \A i \in 1..Len(p) : s[i] \notin Ignored
    <3>1. ASSUME NEW i \in 1..Len(p) PROVE s[i] \notin Ignored
      <4>1. i \in DOMAIN p /\ p[i] \notin {Empty, "."}
        BY <1>1 DEF Proper
      <4>2. s[i] = <<p[i]>> /\ s[i][1] = p[i]
        BY DEF s
      <4>3. <<Empty>>[1] = Empty /\ <<".">>[1] = "."
        BY Zenon
      <4> QED BY <4>1, <4>2, <4>3, Zenon DEF Ignored
    <3> QED BY <3>1
  <2>2. ASSUME NEW i \in 1..Len(local) PROVE local[i] \notin Ignored
    <3>1. i \in 1..n \/ i = n + 1 \/ (i - (n + 1) \in 1..Len(p) /\ i = n + 1 + (i - (n + 1)))
      BY <1>2
    <3> QED BY <1>3, <2>1, <3>1
  <2>3. components(local) = local
    BY <1>2, <2>2, AllComponents
  <2> QED BY <2>3 DEF to_local, local, s
<1>8. resolve_local(root, given) = [inside |-> TRUE, provider_slug |-> slug, cloud_path |-> p]
  <2>1. Len(local) # n /\ local[n + 1] = slug
    BY <1>2, <1>3
  <2> HIDE DEF n
  <2> QED BY <1>4, <1>5, <1>6, <1>7, <2>1, Zenon DEF resolve_local, n
<1> QED BY <1>8

-----------------------------------------------------------------------------
(* The handler: the accounts that the daemon knows.                        *)

\* Slugs and the names in the database name the providers one to one.
LEMMA ProviderNamesDiffer ==
    /\ \A p \in ProviderId : FromRow(DbName(p)) = p
    /\ \A p, q \in ProviderId : as_str(p) = as_str(q) => p = q
<1>1. \A p, q \in ProviderId : DbName(p) = DbName(q) => p = q
  BY DEF ProviderId, DbName
<1>2. ASSUME NEW p \in ProviderId PROVE FromRow(DbName(p)) = p
  BY <1>1 DEF FromRow
<1>3. \A p, q \in ProviderId : as_str(p) = as_str(q) => p = q
  BY DEF ProviderId, as_str
<1> QED BY <1>2, <1>3

\* The snapshot depends on the accounts only.
LEMMA SnapshotDepends ==
    ASSUME NEW d, NEW e, d.accounts = e.accounts
    PROVE  ProviderAccounts(d) = ProviderAccounts(e)
<1>1. list_accounts(d) = list_accounts(e)
  BY DEF list_accounts
<1> QED BY <1>1 DEF ProviderAccounts

\* What main reads: the slug and the id of every active account, the newest first.
LEMMA SnapshotIs ==
    ASSUME AccountsInv, snapshot \in ProviderAccounts(db)
    PROVE  \E ids :
            /\ DOMAIN ids \subseteq Nat /\ DOMAIN snapshot = DOMAIN ids
            /\ \A i \in DOMAIN ids :
                /\ ids[i] \in DOMAIN db.accounts
                /\ db.accounts[ids[i]].is_active
                /\ snapshot[i].account = ids[i]
                /\ snapshot[i].slug = as_str(FromRow(db.accounts[ids[i]].provider))
            /\ \A a \in DOMAIN db.accounts : db.accounts[a].is_active => \E k \in DOMAIN ids : ids[k] = a
            /\ \A j, k \in DOMAIN ids : j < k =>
                db.accounts[ids[j]].created_at >= db.accounts[ids[k]].created_at
<1> DEFINE active == {i \in DOMAIN db.accounts : db.accounts[i].is_active}
<1>1. PICK ids \in list_accounts(db) :
        snapshot = [i \in DOMAIN ids |-> [slug |-> as_str(FromRow(db.accounts[ids[i]].provider)),
                                          account |-> ids[i]]]
  BY DEF ProviderAccounts
<1>2. active \subseteq DOMAIN db.accounts /\ Cardinality(active) \in Nat
  BY FS_Subset, FS_CardinalityType DEF AccountsInv
<1>3. /\ ids \in [1..Cardinality(active) -> active]
      /\ \A i \in active : \E k \in DOMAIN ids : ids[k] = i
      /\ \A j, k \in DOMAIN ids : j < k =>
            db.accounts[ids[j]].created_at >= db.accounts[ids[k]].created_at
  BY <1>1 DEF list_accounts
<1>4. DOMAIN ids \subseteq Nat /\ \A i \in DOMAIN ids : ids[i] \in active
  BY <1>2, <1>3
<1> QED BY <1>1, <1>3, <1>4

\* lookup_account finds the active account of a provider that is newer than the others.
LEMMA LookupNewest ==
    ASSUME AccountsInv, ~ stale, NEW a \in DOMAIN db.accounts, db.accounts[a].is_active,
           \A b \in DOMAIN db.accounts \ {a} :
               db.accounts[b].provider = db.accounts[a].provider /\ db.accounts[b].is_active
                   => db.accounts[b].created_at < db.accounts[a].created_at
    PROVE  lookup_account(as_str(FromRow(db.accounts[a].provider))) = {a}
<1> DEFINE slug == as_str(FromRow(db.accounts[a].provider))
           places == {i \in DOMAIN snapshot : snapshot[i].slug = slug}
<1>1. PICK ids :
            /\ DOMAIN ids \subseteq Nat /\ DOMAIN snapshot = DOMAIN ids
            /\ \A i \in DOMAIN ids :
                /\ ids[i] \in DOMAIN db.accounts
                /\ db.accounts[ids[i]].is_active
                /\ snapshot[i].account = ids[i]
                /\ snapshot[i].slug = as_str(FromRow(db.accounts[ids[i]].provider))
            /\ \A b \in DOMAIN db.accounts : db.accounts[b].is_active => \E k \in DOMAIN ids : ids[k] = b
            /\ \A j, k \in DOMAIN ids : j < k =>
                db.accounts[ids[j]].created_at >= db.accounts[ids[k]].created_at
  BY SnapshotIs DEF AccountsInv
<1>2. PICK k \in DOMAIN ids : ids[k] = a
  BY <1>1
<1>3. k \in places /\ places \subseteq Nat
  BY <1>1, <1>2
<1>4. PICK m \in places : \A j \in places : m <= j
  BY <1>3, LeastElement
<1>5. \A i \in places : (\A j \in places : i <= j) => i = m
  BY <1>3, <1>4
<1>6. FirstAt(places) = {ids[m]}
  BY <1>1, <1>4, <1>5 DEF FirstAt
<1>7. ids[m] = a
  <2> DEFINE b == ids[m]
  <2>1. /\ m \in DOMAIN ids /\ b \in DOMAIN db.accounts /\ db.accounts[b].is_active
        /\ as_str(FromRow(db.accounts[b].provider)) = as_str(FromRow(db.accounts[a].provider))
    BY <1>1, <1>4
  <2>2. /\ db.accounts[a].created_at \in Nat /\ db.accounts[b].created_at \in Nat
        /\ db.accounts[a].provider \in {DbName(p) : p \in ProviderId}
        /\ db.accounts[b].provider \in {DbName(p) : p \in ProviderId}
    BY <2>1 DEF AccountsInv
  <2>3. db.accounts[b].provider = db.accounts[a].provider
    BY <2>1, <2>2, ProviderNamesDiffer
  <2>4. b # a => db.accounts[b].created_at < db.accounts[a].created_at
    BY <2>1, <2>3
  <2>5. CASE m = k
    BY <1>2, <2>5
  <2>6. CASE m # k
    <3>1. m < k
      BY <1>3, <1>4, <2>6
    <3>2. db.accounts[b].created_at >= db.accounts[a].created_at
      BY <1>1, <1>2, <2>1, <3>1
    <3> QED BY <2>2, <2>4, <3>2
  <2> QED BY <2>5, <2>6
<1> QED BY <1>6, <1>7 DEF lookup_account

\* A path that a row of the newest active account has is resolved to its account and
\* its path, and the row is found there.
LEMMA NamedIsFound ==
    ASSUME TablesOK, AccountsInv, ~ stale, NEW local, NEW r \in DOMAIN db.files, Names(local, r)
    PROVE  /\ resolve_local(SyncRoot, local).inside
           /\ lookup_account(resolve_local(SyncRoot, local).provider_slug) = {db.files[r].account}
           /\ RowsAtPath(db, db.files[r].account, resolve_local(SyncRoot, local).cloud_path) # {}
<1> DEFINE a == db.files[r].account
           slug == as_str(FromRow(db.accounts[a].provider))
           path == db.files[r].path
           found == {q \in DOMAIN db.files : db.files[q].account = a /\ db.files[q].path = path}
<1>1. path \in Paths
  BY DEF TablesOK, FilesIn
<1>2. path \in Seq(Range(path)) /\ SyncRoot \in Seq(Range(SyncRoot))
  BY <1>1, PathsAssumption
<1>3. components(local) = to_local(SyncRoot, slug, path) /\ Proper(path)
  BY DEF Names
<1>4. /\ resolve_local(SyncRoot, local).inside
      /\ resolve_local(SyncRoot, local).provider_slug = slug
      /\ resolve_local(SyncRoot, local).cloud_path = path
  <2>1. slug \notin Ignored
    <3>1. db.accounts[a].provider \in {DbName(p) : p \in ProviderId}
      BY DEF Names, HasAccount, AccountsInv
    <3>2. PICK p \in ProviderId : slug = as_str(p)
      BY <3>1, ProviderNamesDiffer
    <3>3. as_str(p)[1] \in {"gdrive", "dropbox", "onedrive"}
      BY DEF as_str, ProviderId
    <3>4. <<Empty>>[1] = Empty /\ <<".">>[1] = "."
      OBVIOUS
    <3>5. Empty \notin {"gdrive", "dropbox", "onedrive"}
      BY DEF Empty
    <3> QED BY <3>2, <3>3, <3>4, <3>5 DEF Ignored
  <2>2. \A i \in 1..Len(SyncRoot) : SyncRoot[i] \notin Ignored
    BY <1>2, PathsAssumption
  <2> HIDE DEF slug, path
  <2> QED BY <1>2, <1>3, <2>1, <2>2, ResolveUndoesToLocal
<1>5. lookup_account(slug) = {a}
  BY LookupNewest DEF Names, HasAccount
<1>6. found # {} /\ found \subseteq Nat
  BY DEF TablesOK
<1>7. \E q \in found : \A u \in found : q <= u
  BY <1>6, LeastElement
<1>8. RowsAtPath(db, a, path) # {}
  BY <1>7 DEF RowsAtPath
<1> QED BY <1>4, <1>5, <1>8

-----------------------------------------------------------------------------
(* The handler: what is refused.                                           *)

\* A step that leaves the accounts and the snapshot alone.
LEMMA AccountsFrame ==
    ASSUME AccountsInv, db'.accounts = db.accounts, UNCHANGED <<snapshot, stale>>,
           admin' \in {admin, admin + 1}
    PROVE  AccountsInv'
<1>1. admin \in Nat /\ admin' \in Nat /\ 0..admin \subseteq 0..admin'
  BY DEF AccountsInv
<1>2. ProviderAccounts(db') = ProviderAccounts(db)
  BY SnapshotDepends
<1>3. ~ stale' => snapshot' \in ProviderAccounts(db')
  BY <1>2 DEF AccountsInv
<1>4. \A a \in DOMAIN db'.accounts :
        db'.accounts[a] \in [provider : {DbName(p) : p \in ProviderId}, email : Emails,
                             is_active : BOOLEAN, created_at : 0..admin']
  BY <1>1 DEF AccountsInv
<1> QED BY <1>1, <1>3, <1>4 DEF AccountsInv

\* What is left of AnsweringInv to be shown of a step: the task's own request.
LEMMA AnsweringFrame ==
    ASSUME AnsweringInv, UNCHANGED snapshot, NEW t,
           \A u \in DaemonTasks \ {t} : /\ stage'[u] = stage[u] /\ job'[u] = job[u]
                                        /\ reply'[u] = reply[u] /\ account'[u] = account[u],
           t \in DaemonTasks /\ stage'[t] # "idle" =>
               /\ reply'[t] \notin Errors
               /\ job'[t].op # "GetStatusBatch" => Tail(job'[t].todo) = <<>>
               /\ stage'[t] # "resolve" =>
                   account'[t] \in lookup_account(resolve_local(SyncRoot, Head(job'[t].todo)).provider_slug)
    PROVE  AnsweringInv'
<1> SUFFICES ASSUME NEW u \in DaemonTasks, stage'[u] # "idle"
             PROVE  /\ reply'[u] \notin Errors
                    /\ job'[u].op # "GetStatusBatch" => Tail(job'[u].todo) = <<>>
                    /\ stage'[u] # "resolve" =>
                        account'[u] \in lookup_account(resolve_local(SyncRoot, Head(job'[u].todo)).provider_slug)
  BY DEF AnsweringInv, lookup_account, FirstAt
<1>1. CASE u = t
  BY <1>1
<1>2. CASE u # t
  BY <1>2 DEF AnsweringInv
<1> QED BY <1>1, <1>2

\* A step that leaves the requests alone.
LEMMA AnsweringSame ==
    ASSUME AnsweringInv, UNCHANGED <<snapshot, stage, job, account, reply>>
    PROVE  AnsweringInv'
BY DEF AnsweringInv, lookup_account, FirstAt

\* An answer to the path at hand: only a batch goes on, and it has not been refused.
LEMMA AnswerAnswering ==
    ASSUME LocksOK, JobsInv, AnswersOK, AnsweringInv, NEW t \in DaemonTasks, stage[t] # "idle",
           NEW a, Answer(t, a), UNCHANGED <<snapshot, account>>
    PROVE  AnsweringInv'
<1> DEFINE rest == Tail(job[t].todo)
           shown == IF job[t].op = "GetStatusBatch" /\ a \in Errors THEN "Error" ELSE a
<1>0. t \in Tasks
  BY DEF Tasks
<1>1. /\ reply' = [reply EXCEPT ![t] = shown]
      /\ job' = [job EXCEPT ![t] = IF rest = <<>> THEN Idle ELSE [op |-> job[t].op, todo |-> rest]]
      /\ stage' = [stage EXCEPT ![t] = IF rest = <<>> THEN "idle" ELSE "resolve"]
  BY DEF Answer, Enter
<1> HIDE DEF rest, shown
<1>2. /\ reply'[t] = shown /\ job'[t] = (IF rest = <<>> THEN Idle ELSE [op |-> job[t].op, todo |-> rest])
      /\ stage'[t] = IF rest = <<>> THEN "idle" ELSE "resolve"
      /\ \A u \in DaemonTasks \ {t} : /\ stage'[u] = stage[u] /\ job'[u] = job[u]
                                      /\ reply'[u] = reply[u] /\ account'[u] = account[u]
  BY <1>0, <1>1 DEF LocksOK, JobsInv, AnswersOK
<1>3. CASE rest = <<>>
  BY <1>2, <1>3, AnsweringFrame
<1>4. CASE rest # <<>>
  <2>1. job[t].op = "GetStatusBatch"
    BY <1>4 DEF AnsweringInv, rest
  <2>2. shown \notin Errors
    BY <2>1 DEF shown, Errors
  <2>3. job'[t].op = "GetStatusBatch" /\ stage'[t] = "resolve"
    BY <1>2, <1>4, <2>1
  <2> QED BY <1>2, <2>2, <2>3, AnsweringFrame
<1> QED BY <1>3, <1>4

\* What a step of a request at work is: an answer, in which a refusal has its reason, or
\* one on the way to it.
LEMMA DaemonSteps ==
    ASSUME HandlerInv, NEW t \in DaemonTasks, Resolve(t) \/ ForceSync(t) \/ Select(t) \/ Update(t)
    PROVE  LET local == Head(job[t].todo)
               r == resolve_and_lookup(local) IN
           /\ stage[t] # "idle" /\ db'.accounts = db.accounts /\ UNCHANGED <<snapshot, stale, admin>>
           /\ \/ \E a : /\ Answer(t, a) /\ UNCHANGED account
                        /\ a \in Errors \ {"database error"} =>
                            \/ r.error # "none"
                            \/ /\ stage[t] = "select"
                               /\ RowsAtPath(db, account[t], resolve_local(SyncRoot, local).cloud_path) = {}
              \/ /\ stage[t] = "resolve" /\ r.error = "none" /\ stage' = [stage EXCEPT ![t] = "select"]
                 /\ account' = [account EXCEPT ![t] = r.account] /\ UNCHANGED <<job, reply>>
              \/ /\ stage[t] = "select" /\ stage' = [stage EXCEPT ![t] = "write"]
                 /\ UNCHANGED <<account, job, reply>>
<1>0. TablesOK
  BY DEF HandlerInv, HandlerTypeOK
<1>1. CASE Resolve(t)
  BY <1>1 DEF Resolve, Enter, counts, hist
<1>2. CASE ForceSync(t)
  <2>1. /\ stage[t] = "resolve" /\ UNCHANGED <<db, snapshot, account, stale, admin>>
        /\ \/ /\ resolve_and_lookup(Head(job[t].todo)).error # "none"
              /\ Answer(t, resolve_and_lookup(Head(job[t].todo)).error)
           \/ Answer(t, "Ok")
    BY <1>2 DEF ForceSync, counts, hist
  <2>2. "Ok" \notin Errors
    BY DEF Errors
  <2> QED BY <2>1, <2>2
<1>3. CASE Update(t)
  <2>1. stage[t] = "write" /\ UNCHANGED <<snapshot, account, stale, admin>>
    BY <1>3 DEF Update, counts
  <2>2. db'.accounts = db.accounts
    <3>1. \/ UNCHANGED db \/ db' = update_file(db, copy[t].id, copy[t].row)
      BY <1>3 DEF Update, Stored
    <3>2. update_file(db, copy[t].id, copy[t].row).accounts = db.accounts
      BY <1>0 DEF TablesOK, update_file
    <3> QED BY <3>1, <3>2
  <2>3. Answer(t, "Ok") \/ Answer(t, "database error")
    BY <1>3 DEF Update
  <2>4. "Ok" \notin Errors
    BY DEF Errors
  <2> QED BY <2>1, <2>2, <2>3, <2>4
<1>4. CASE Select(t)
  <2> DEFINE ids == RowsAtPath(db, account[t], resolve_local(SyncRoot, Head(job[t].todo)).cloud_path)
  <2>1. /\ stage[t] = "select" /\ UNCHANGED <<db, snapshot, account, stale, admin>>
        /\ \/ ids = {} /\ Answer(t, "file not found")
           \/ \E r \in ids : Answer(t, FileOfRow(db.files[r]).state)
           \/ Answer(t, "Ok") \/ Answer(t, "database error")
           \/ stage' = [stage EXCEPT ![t] = "write"] /\ UNCHANGED <<job, reply>>
    BY <1>4 DEF Select, ReadToWrite, Enter, counts
  <2>2. ASSUME NEW r \in ids PROVE FileOfRow(db.files[r]).state \notin Errors
    <3>1. r \in DOMAIN db.files
      BY DEF RowsAtPath
    <3>2. db.files[r] \in FilesIn({StateName(s) : s \in States})
      BY <1>0, <3>1 DEF TablesOK
    <3>3. FileOfRow(db.files[r]).state \in States
      BY <3>2, FileOfRowIs DEF FilesIn
    <3> QED BY <3>3 DEF States, Errors
  <2>3. "Ok" \notin Errors
    BY DEF Errors
  <2> HIDE DEF ids
  <2>4. CASE ids = {} /\ Answer(t, "file not found")
    BY <2>1, <2>4 DEF ids
  <2>5. CASE \E r \in ids : Answer(t, FileOfRow(db.files[r]).state)
    BY <2>1, <2>2, <2>5
  <2>6. CASE Answer(t, "Ok") \/ Answer(t, "database error")
    BY <2>1, <2>3, <2>6
  <2>7. CASE stage' = [stage EXCEPT ![t] = "write"] /\ UNCHANGED <<job, reply>>
    BY <2>1, <2>7
  <2> QED BY <2>1, <2>4, <2>5, <2>6, <2>7
<1> QED BY <1>1, <1>2, <1>3, <1>4

\* A request is resolved to the account that the snapshot has for its provider.
LEMMA ResolvedAccount ==
    ASSUME NEW local, resolve_and_lookup(local).error = "none"
    PROVE  resolve_and_lookup(local).account \in lookup_account(resolve_local(SyncRoot, local).provider_slug)
<1> DEFINE found == lookup_account(resolve_local(SyncRoot, local).provider_slug)
<1>1. resolve_local(SyncRoot, local).inside /\ found # {}
  BY DEF resolve_and_lookup
<1>2. resolve_and_lookup(local).account = CHOOSE a \in found : TRUE
  BY <1>1 DEF resolve_and_lookup
<1> HIDE DEF found
<1>3. (CHOOSE a \in found : TRUE) \in found
  BY <1>1
<1> QED BY <1>2, <1>3 DEF found

\* Requests keep the invariants.
LEMMA RefusalDaemon ==
    ASSUME RefusalInv, NEW t \in DaemonTasks, Resolve(t) \/ ForceSync(t) \/ Select(t) \/ Update(t)
    PROVE  AccountsInv' /\ AnsweringInv'
<1> DEFINE local == Head(job[t].todo)
           r == resolve_and_lookup(local)
<1>0. /\ HandlerInv /\ LocksOK /\ JobsInv /\ AnswersOK /\ AccountsInv /\ AnsweringInv
      /\ t \in Tasks
  BY DEF RefusalInv, HandlerInv, HandlerTypeOK, Tasks
<1>1. /\ stage[t] # "idle" /\ db'.accounts = db.accounts /\ UNCHANGED <<snapshot, stale, admin>>
      /\ \/ \E a : Answer(t, a) /\ UNCHANGED account
         \/ /\ stage[t] = "resolve" /\ r.error = "none" /\ stage' = [stage EXCEPT ![t] = "select"]
            /\ account' = [account EXCEPT ![t] = r.account] /\ UNCHANGED <<job, reply>>
         \/ /\ stage[t] = "select" /\ stage' = [stage EXCEPT ![t] = "write"]
            /\ UNCHANGED <<account, job, reply>>
  BY <1>0, DaemonSteps
<1>2. AccountsInv'
  BY <1>0, <1>1, AccountsFrame
<1>3. CASE \E a : Answer(t, a) /\ UNCHANGED account
  BY <1>0, <1>1, <1>2, <1>3, AnswerAnswering
<1>4. /\ reply[t] \notin Errors
      /\ job[t].op # "GetStatusBatch" => Tail(job[t].todo) = <<>>
      /\ stage[t] # "resolve" => account[t] \in lookup_account(resolve_local(SyncRoot, local).provider_slug)
  BY <1>0, <1>1 DEF AnsweringInv
<1>5. CASE /\ stage[t] = "resolve" /\ r.error = "none" /\ stage' = [stage EXCEPT ![t] = "select"]
           /\ account' = [account EXCEPT ![t] = r.account] /\ UNCHANGED <<job, reply>>
  <2>1. account'[t] = r.account /\ \A u \in DaemonTasks \ {t} : account'[u] = account[u]
    BY <1>0, <1>5 DEF JobsInv
  <2>2. \A u \in DaemonTasks \ {t} : stage'[u] = stage[u]
    BY <1>5
  <2>3. account'[t] \in lookup_account(resolve_local(SyncRoot, Head(job'[t].todo)).provider_slug)
    BY <1>5, <2>1, ResolvedAccount
  <2>4. AnsweringInv'
    BY <1>0, <1>1, <1>4, <1>5, <2>1, <2>2, <2>3, AnsweringFrame
  <2> QED BY <1>2, <2>4
<1>6. CASE /\ stage[t] = "select" /\ stage' = [stage EXCEPT ![t] = "write"]
           /\ UNCHANGED <<account, job, reply>>
  <2>1. \A u \in DaemonTasks \ {t} : stage'[u] = stage[u]
    BY <1>6
  <2>2. account'[t] \in lookup_account(resolve_local(SyncRoot, Head(job'[t].todo)).provider_slug)
    BY <1>4, <1>6
  <2>3. AnsweringInv'
    BY <1>0, <1>1, <1>4, <1>6, <2>1, <2>2, AnsweringFrame
  <2> QED BY <1>2, <2>3
<1> QED BY <1>1, <1>3, <1>5, <1>6

\* A request arrives.
LEMMA RefusalRequest ==
    ASSUME RefusalInv, NEW t \in DaemonTasks,
           \/ \E op \in FileRequests, p \in Locals : Request(t, op, <<p>>)
           \/ \E p, q \in Locals : Request(t, "GetStatusBatch", <<p, q>>)
           \/ \E kind \in {"Pause", "Resume"} : \E slug : PauseOrResume(t, kind, slug)
           \/ Ping(t)
    PROVE  AccountsInv' /\ AnsweringInv'
<1>0. /\ LocksOK /\ JobsInv /\ AnswersOK /\ AccountsInv /\ AnsweringInv /\ t \in Tasks
  BY DEF RefusalInv, HandlerInv, HandlerTypeOK, Tasks
<1>1. ASSUME NEW op, NEW todo, Request(t, op, todo), op # "GetStatusBatch" => Tail(todo) = <<>>
      PROVE  AccountsInv' /\ AnsweringInv'
  <2>1. /\ UNCHANGED <<db, snapshot, account, admin, stale>>
        /\ job' = [job EXCEPT ![t] = [op |-> op, todo |-> todo]]
        /\ reply' = [reply EXCEPT ![t] = "none"]
        /\ stage' = [stage EXCEPT ![t] = "resolve"]
    BY <1>1 DEF Request, Enter, hist
  <2>2. /\ job'[t].op = op /\ job'[t].todo = todo /\ reply'[t] = "none" /\ stage'[t] = "resolve"
        /\ \A u \in DaemonTasks \ {t} : stage'[u] = stage[u] /\ job'[u] = job[u] /\ reply'[u] = reply[u]
    BY <1>0, <2>1 DEF LocksOK, JobsInv, AnswersOK
  <2>3. "none" \notin Errors
    BY DEF Errors
  <2>4. AnsweringInv'
    BY <1>0, <1>1, <2>1, <2>2, <2>3, AnsweringFrame
  <2> QED BY <1>0, <2>1, <2>4, AccountsFrame
<1>2. ASSUME NEW kind, NEW slug, PauseOrResume(t, kind, slug) \/ Ping(t)
      PROVE  AccountsInv' /\ AnsweringInv'
  <2>1. /\ UNCHANGED <<db, snapshot, stage, job, account, admin, stale>> /\ stage[t] = "idle"
        /\ reply' = [reply EXCEPT ![t] = "Ok"]
    BY <1>2 DEF PauseOrResume, Ping, hist
  <2>2. \A u \in DaemonTasks \ {t} : reply'[u] = reply[u]
    BY <2>1
  <2>3. AnsweringInv'
    BY <1>0, <2>1, <2>2, AnsweringFrame
  <2> QED BY <1>0, <2>1, <2>3, AccountsFrame
<1>3. \A p : Tail(<<p>>) = <<>>
  OBVIOUS
<1> QED BY <1>1, <1>2, <1>3

\* Steps of the mount.
LEMMA RefusalMount ==
    ASSUME RefusalInv, NEW t \in MountTasks,
           \/ \E j : Job(t, j)
           \/ MountSelect(t) \/ MountWrite(t)
    PROVE  AccountsInv' /\ AnsweringInv'
<1>0. /\ TablesOK /\ LocksOK /\ JobsInv /\ AccountsInv /\ AnsweringInv /\ t \in Tasks /\ t \notin DaemonTasks
      /\ DaemonTasks \subseteq Tasks
  BY HandlerAssumption DEF RefusalInv, HandlerInv, HandlerTypeOK, Tasks
<1>1. /\ UNCHANGED <<snapshot, account, reply, admin, stale>>
      /\ \A u \in Tasks \ {t} : stage'[u] = stage[u] /\ job'[u] = job[u]
  <2>1. ASSUME NEW l, NEW j, stage' = [stage EXCEPT ![t] = l],
               job' = job \/ job' = [job EXCEPT ![t] = j]
        PROVE  \A u \in Tasks \ {t} : stage'[u] = stage[u] /\ job'[u] = job[u]
    BY <1>0, <2>1 DEF LocksOK, JobsInv
  <2>2. CASE \E j : Job(t, j)
    BY <2>1, <2>2 DEF Job, Enter, hist
  <2>3. CASE MountSelect(t)
    BY <2>1, <2>3 DEF MountSelect, ReadToWrite, Enter, JobEnds, counts
  <2>4. CASE MountWrite(t)
    BY <2>1, <2>4 DEF MountWrite, Enter, JobEnds, counts
  <2> QED BY <2>2, <2>3, <2>4
<1>2. db'.accounts = db.accounts
  <2>1. \/ UNCHANGED db \/ db' = create_file(db, copy[t].row)
        \/ db' = update_file(db, copy[t].id, copy[t].row) \/ db' = delete_file(db, copy[t].id)
    BY DEF Job, MountSelect, MountWrite, Stored
  <2> QED BY <1>0, <2>1 DEF TablesOK, create_file, update_file, delete_file
<1>3. AnsweringInv'
  BY <1>0, <1>1, AnsweringFrame
<1> QED BY <1>0, <1>1, <1>2, <1>3, AccountsFrame

\* The account tool and the cursor.
LEMMA RefusalAdmin ==
    ASSUME RefusalInv,
           \/ SaveCursor
           \/ \E id \in AccountIds : \/ \E p \in Providers, e \in Emails : AddAccount(id, p, e)
                                     \/ \E active \in BOOLEAN : SetActive(id, active)
                                     \/ RemoveAccount(id)
                                     \/ Reset(id)
    PROVE  AccountsInv' /\ AnsweringInv'
<1>0. TablesOK /\ AccountsInv /\ AnsweringInv /\ DOMAIN db = {"accounts", "files", "cursors", "next"}
  BY DEF RefusalInv, HandlerInv, HandlerTypeOK, TablesOK
<1>1. UNCHANGED <<snapshot, stage, job, account, reply>>
  BY DEF SaveCursor, AddAccount, SetActive, RemoveAccount, Reset, Admin
<1>2. AnsweringInv'
  BY <1>0, <1>1, AnsweringSame
<1>3. CASE SaveCursor
  <2>1. UNCHANGED <<admin, stale>> /\ db'.accounts = db.accounts
    BY <1>0, <1>3 DEF SaveCursor, hist, upsert_cursor
  <2> QED BY <1>0, <1>1, <1>2, <2>1, AccountsFrame
<1>4. ASSUME NEW id \in AccountIds, Reset(id) PROVE AccountsInv'
  <2>1. admin' = admin + 1 /\ UNCHANGED stale
    BY <1>4 DEF Reset, Admin
  <2>2. db'.accounts = db.accounts
    BY <1>0, <1>4 DEF Reset, Admin, delete_files_by_account, delete_cursor
  <2> QED BY <1>0, <1>1, <2>1, <2>2, AccountsFrame
<1> DEFINE Row(n) == [provider : {DbName(p) : p \in ProviderId}, email : Emails,
                      is_active : BOOLEAN, created_at : 0..n]
<1>5. ASSUME admin' = admin + 1, stale' = TRUE, IsFiniteSet(DOMAIN db'.accounts),
             \A a \in DOMAIN db'.accounts : db'.accounts[a] \in Row(admin + 1)
      PROVE  AccountsInv'
  BY <1>0, <1>5 DEF AccountsInv
<1>6. /\ admin \in Nat /\ IsFiniteSet(DOMAIN db.accounts)
      /\ \A a \in DOMAIN db.accounts : db.accounts[a] \in Row(admin + 1)
  <2>1. admin \in Nat /\ 0..admin \subseteq 0..admin + 1
    BY <1>0 DEF AccountsInv
  <2>2. \A a \in DOMAIN db.accounts : db.accounts[a] \in Row(admin)
    BY <1>0 DEF AccountsInv
  <2>3. \A a \in DOMAIN db.accounts : db.accounts[a] \in Row(admin + 1)
    BY <2>1, <2>2
  <2> QED BY <1>0, <2>1, <2>3 DEF AccountsInv
<1> HIDE DEF Row
<1>7. ASSUME NEW id \in AccountIds, NEW p \in Providers, NEW e \in Emails, AddAccount(id, p, e)
      PROVE  AccountsInv'
  <2>0. PICK now \in 0..admin + 1 :
            admin' = admin + 1 /\ stale' = TRUE /\ id \notin DOMAIN db.accounts
            /\ db' = create_account(db, id, NewAccount(p, e, now))
    BY <1>7 DEF AddAccount, Admin, HasAccount
  <2> DEFINE n == NewAccount(p, e, now)
  <2>1. admin' = admin + 1 /\ stale' = TRUE /\ db' = create_account(db, id, n) /\ id \notin DOMAIN db.accounts
    BY <2>0
  <2>2. n \in Row(admin + 1)
    BY <1>6, HandlerAssumption DEF NewAccount, Row
  <2> HIDE DEF n
  <2>3. db'.accounts = With(db.accounts, id, n)
    BY <1>0, <2>1, AccountStatements
  <2>4. /\ DOMAIN db'.accounts = DOMAIN db.accounts \cup {id} /\ db'.accounts[id] = n
        /\ \A a \in DOMAIN db.accounts : db'.accounts[a] = db.accounts[a]
    BY <2>1, <2>3 DEF With
  <2>5. IsFiniteSet(DOMAIN db'.accounts)
    BY <1>6, <2>4, FS_AddElement
  <2>6. \A a \in DOMAIN db'.accounts : db'.accounts[a] \in Row(admin + 1)
    BY <1>6, <2>2, <2>4
  <2> QED BY <1>5, <2>1, <2>5, <2>6
<1>8. ASSUME NEW id \in AccountIds, NEW active \in BOOLEAN, SetActive(id, active) PROVE AccountsInv'
  <2>1. /\ admin' = admin + 1 /\ stale' = TRUE /\ id \in DOMAIN db.accounts
        /\ db'.accounts = [db.accounts EXCEPT ![id].is_active = active]
    BY <1>0, <1>8 DEF SetActive, Admin, HasAccount, update_account
  <2>2. /\ DOMAIN db'.accounts = DOMAIN db.accounts
        /\ \A a \in DOMAIN db.accounts : db'.accounts[a] \in Row(admin + 1)
    BY <1>6, <2>1 DEF Row
  <2> QED BY <1>5, <1>6, <2>1, <2>2
<1>9. ASSUME NEW id \in AccountIds, RemoveAccount(id) PROVE AccountsInv'
  <2>1. /\ admin' = admin + 1 /\ stale' = TRUE /\ db'.accounts = Without(db.accounts, {id})
    BY <1>0, <1>9 DEF RemoveAccount, Admin, delete_account
  <2>2. /\ DOMAIN db'.accounts \subseteq DOMAIN db.accounts
        /\ \A a \in DOMAIN db'.accounts : db'.accounts[a] = db.accounts[a]
    BY <2>1 DEF Without
  <2>3. IsFiniteSet(DOMAIN db'.accounts)
    BY <1>6, <2>2, FS_Subset
  <2> QED BY <1>5, <1>6, <2>1, <2>2, <2>3
<1> QED BY <1>2, <1>3, <1>4, <1>7, <1>8, <1>9

\* The daemon is started again.
LEMMA RefusalRestart ==
    ASSUME RefusalInv, NEW ok \in BOOLEAN, RestartDaemon(ok)
    PROVE  AccountsInv' /\ AnsweringInv'
<1>0. AccountsInv /\ DaemonTasks \subseteq Tasks
  BY DEF RefusalInv, Tasks
<1>1. /\ admin' = admin + 1 /\ UNCHANGED db /\ stale' = ~ ok
      /\ ok => snapshot' \in ProviderAccounts(db)
      /\ \A t \in DaemonTasks : stage'[t] = "idle"
  BY <1>0 DEF RestartDaemon
<1>2. AnsweringInv'
  BY <1>1 DEF AnsweringInv
<1>3. ~ stale' => snapshot' \in ProviderAccounts(db')
  BY <1>1
<1>4. AccountsInv'
  BY <1>0, <1>1, <1>3 DEF AccountsInv
<1> QED BY <1>2, <1>4

\* The initial states.
LEMMA RefusalInit == HandlerInit => AccountsInv /\ AnsweringInv
<1> SUFFICES ASSUME HandlerInit PROVE AccountsInv /\ AnsweringInv
  OBVIOUS
<1>1. PICK p \in Providers, e \in Emails :
        db = create_account(EmptyTables, MountAccount, NewAccount(p, e, 0))
  BY DEF HandlerInit
<1>2. DOMAIN EmptyTables = {"accounts", "files", "cursors", "next"} /\ EmptyTables.accounts = <<>>
  BY DEF EmptyTables
<1>3. db.accounts = With(<<>>, MountAccount, NewAccount(p, e, 0))
  BY <1>1, <1>2, AccountStatements
<1>4. DOMAIN db.accounts = {MountAccount} /\ db.accounts[MountAccount] = NewAccount(p, e, 0)
  BY <1>3 DEF With
<1>5. IsFiniteSet(DOMAIN db.accounts)
  BY <1>4, FS_Singleton
<1>6. NewAccount(p, e, 0) \in [provider : {DbName(q) : q \in ProviderId}, email : Emails,
                               is_active : BOOLEAN, created_at : 0..0]
  BY HandlerAssumption DEF NewAccount
<1>7. admin = 0 /\ snapshot \in ProviderAccounts(db) /\ \A t \in DaemonTasks : stage[t] = "idle"
  BY DEF HandlerInit, Tasks
<1>8. AccountsInv
  BY <1>4, <1>5, <1>6, <1>7 DEF AccountsInv
<1>9. AnsweringInv
  BY <1>7 DEF AnsweringInv
<1> QED BY <1>8, <1>9

\* Every step keeps the invariants.
LEMMA RefusalStep == RefusalInv /\ [HandlerNext]_handlerVars => RefusalInv'
<1> SUFFICES ASSUME RefusalInv, [HandlerNext]_handlerVars PROVE RefusalInv'
  OBVIOUS
<1>0. HandlerInv'
  BY HandlerStep DEF RefusalInv
<1>1. CASE UNCHANGED handlerVars
  <2>1. UNCHANGED <<db, snapshot, stage, job, account, reply, admin, stale>>
    BY <1>1 DEF handlerVars, counts, hist
  <2>2. AccountsInv'
    BY <2>1, AccountsFrame DEF RefusalInv
  <2>3. AnsweringInv'
    BY <2>1, AnsweringSame DEF RefusalInv
  <2> QED BY <1>0, <2>2, <2>3 DEF RefusalInv
<1>2. CASE HandlerNext
  <2>1. ASSUME NEW t \in DaemonTasks,
               \/ \E op \in FileRequests, p \in Locals : Request(t, op, <<p>>)
               \/ \E p, q \in Locals : Request(t, "GetStatusBatch", <<p, q>>)
               \/ \E kind \in {"Pause", "Resume"}, slug \in {<<"gdrive">>, <<"unknown">>} :
                    PauseOrResume(t, kind, slug)
               \/ Ping(t)
        PROVE  AccountsInv' /\ AnsweringInv'
    BY <2>1, RefusalRequest
  <2>2. ASSUME NEW t \in MountTasks,
               \/ \E j \in ApplyChange : Job(t, j)
               \/ \E r \in DOMAIN db.files, s \in {"Syncing", "Synced"} :
                    Job(t, [op |-> "state", file |-> db.files[r].file, state |-> s])
               \/ MountSelect(t) \/ MountWrite(t)
        PROVE  AccountsInv' /\ AnsweringInv'
    BY <2>2, RefusalMount
  <2>3. AccountsInv' /\ AnsweringInv'
    BY <1>2, <2>1, <2>2, RefusalDaemon, RefusalAdmin, RefusalRestart, Zenon DEF HandlerNext
  <2> QED BY <1>0, <2>3 DEF RefusalInv
<1> QED BY <1>1, <1>2

\* A request that is refused names no row of the newest active account.
LEMMA RefusedStep ==
    ASSUME RefusalInv, [HandlerNext]_handlerVars, NEW t \in DaemonTasks,
           reply'[t] \in Errors \ {"database error"}, stage[t] # stage'[t], ~ stale,
           NEW r \in DOMAIN db.files, Names(Head(job[t].todo), r)
    PROVE  FALSE
<1> DEFINE local == Head(job[t].todo)
<1>0. /\ HandlerInv /\ TablesOK /\ LocksOK /\ JobsInv /\ AnswersOK /\ AccountsInv /\ AnsweringInv
      /\ DaemonTasks \subseteq Tasks /\ MountTasks \cap DaemonTasks = {}
  BY HandlerAssumption DEF RefusalInv, HandlerInv, HandlerTypeOK, Tasks
<1>1. Resolve(t) \/ ForceSync(t) \/ Select(t) \/ Update(t)
  <2>1. ~ UNCHANGED handlerVars
    BY DEF handlerVars
  <2>2. \A ok \in BOOLEAN : ~ RestartDaemon(ok)
    BY DEF RestartDaemon, Errors
  <2>3. ~ SaveCursor /\ \A id \in AccountIds : /\ \A p \in Providers, e \in Emails : ~ AddAccount(id, p, e)
                                               /\ \A active \in BOOLEAN : ~ SetActive(id, active)
                                               /\ ~ RemoveAccount(id) /\ ~ Reset(id)
    BY DEF SaveCursor, AddAccount, SetActive, RemoveAccount, Reset, Admin
  <2>4. ASSUME NEW u \in Tasks, NEW l, stage' = [stage EXCEPT ![u] = l] PROVE u = t
    BY <1>0, <2>4 DEF LocksOK
  <2>5. ASSUME NEW u \in MountTasks PROVE ~ (MountSelect(u) \/ MountWrite(u)) /\ \A j : ~ Job(u, j)
    <3>1. u \in Tasks /\ u # t
      BY <1>0 DEF Tasks
    <3> QED BY <2>4, <3>1 DEF MountSelect, MountWrite, Job, ReadToWrite, JobEnds, Enter
  <2>6. ASSUME NEW u \in DaemonTasks PROVE /\ \A op, todo : ~ Request(u, op, todo)
                                           /\ \A kind, slug : ~ PauseOrResume(u, kind, slug)
                                           /\ ~ Ping(u)
    <3>1. \A kind, slug : ~ PauseOrResume(u, kind, slug) /\ ~ Ping(u)
      BY DEF PauseOrResume, Ping
    <3>2. ASSUME NEW op, NEW todo, Request(u, op, todo) PROVE FALSE
      <4>1. u = t /\ reply' = [reply EXCEPT ![u] = "none"]
        BY <1>0, <2>4, <3>2 DEF Request, Enter
      <4>2. reply'[t] = "none"
        BY <1>0, <4>1 DEF AnswersOK
      <4> QED BY <4>2 DEF Errors
    <3> QED BY <3>1, <3>2
  <2>7. ASSUME NEW u \in DaemonTasks, Resolve(u) \/ ForceSync(u) \/ Select(u) \/ Update(u) PROVE u = t
    <3>1. \E l : stage' = [stage EXCEPT ![u] = l]
      BY <1>0, <2>7, DaemonSteps DEF Answer, Enter
    <3> QED BY <1>0, <2>4, <3>1
  <2>8. HandlerNext
    BY <2>1
  <2> QED BY <2>2, <2>3, <2>5, <2>6, <2>7, <2>8, Zenon DEF HandlerNext
<1>2. /\ resolve_local(SyncRoot, local).inside
      /\ lookup_account(resolve_local(SyncRoot, local).provider_slug) = {db.files[r].account}
      /\ RowsAtPath(db, db.files[r].account, resolve_local(SyncRoot, local).cloud_path) # {}
  BY <1>0, NamedIsFound
<1>3. resolve_and_lookup(local).error = "none"
  BY <1>2 DEF resolve_and_lookup
<1>4. stage[t] # "idle" => reply[t] \notin Errors
  BY <1>0 DEF AnsweringInv
<1>5. /\ stage[t] # "idle"
      /\ \E a : /\ Answer(t, a)
                /\ a \in Errors \ {"database error"} =>
                    /\ stage[t] = "select"
                    /\ RowsAtPath(db, account[t], resolve_local(SyncRoot, local).cloud_path) = {}
  BY <1>0, <1>1, <1>3, <1>4, DaemonSteps
<1>6. PICK a : /\ Answer(t, a)
               /\ a \in Errors \ {"database error"} =>
                    /\ stage[t] = "select"
                    /\ RowsAtPath(db, account[t], resolve_local(SyncRoot, local).cloud_path) = {}
  BY <1>5
<1>7. reply'[t] = IF job[t].op = "GetStatusBatch" /\ a \in Errors THEN "Error" ELSE a
  BY <1>0, <1>6 DEF Answer, AnswersOK
<1>8. a \in Errors \ {"database error"}
  BY <1>7 DEF Errors
<1>9. account[t] = db.files[r].account
  BY <1>0, <1>2, <1>6, <1>8 DEF AnsweringInv
<1> QED BY <1>2, <1>6, <1>8, <1>9

\* RefusedMeansMissing: a request is refused only if there is no such file of the newest
\* active account of the provider, unless the accounts have changed since the start, or
\* several are of the same time.
THEOREM RefusalSafety == HandlerSpec => RefusedMeansMissing
<1>1. HandlerInit => RefusalInv
  BY HandlerInitInv, RefusalInit DEF RefusalInv
<1>2. RefusalInv /\ [HandlerNext]_handlerVars =>
        [\A t \in DaemonTasks :
            (reply'[t] \in Errors \ {"database error"} /\ stage[t] # stage'[t] /\ ~ stale)
                => ~ \E r \in DOMAIN db.files : Names(Head(job[t].todo), r)]_handlerVars
  BY RefusedStep
<1> QED BY <1>1, <1>2, RefusalStep, PTL DEF HandlerSpec, RefusedMeansMissing
=============================================================================
