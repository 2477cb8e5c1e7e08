------------------------- MODULE CloudSyncFS_proofs -------------------------
(***************************************************************************)
(* Proofs about CloudSyncFS.  HandleInv is inductive: inodes stay distinct *)
(* because get_or_allocate numbers the fresh ones upwards from the         *)
(* counter, so the file the kernel meant is the one that open resolves;    *)
(* and a copy that exists is never downloaded again, so the content behind *)
(* a handle does not change.  ListingInv is inductive: of the files that a *)
(* listing has to show, what lies before the offset has been shown.  The   *)
(* lemmas about Place say what inserting, removing, renaming and leaving   *)
(* out files does to the places of the others.                             *)
(***************************************************************************)
EXTENDS CloudSyncFS, FiniteSetTheorems, TLAPS

USE ConstantsAssumption DEF FUSE_ROOT_INODE, Broken

\* The distinctness of inodes, below the counter and not the root's.
InodesDistinct ==
    /\ next_inode > FUSE_ROOT_INODE
    /\ \A f \in Files : inodes[f] < next_inode /\ inodes[f] # FUSE_ROOT_INODE
    /\ \A f, g \in Files : inodes[f] = inodes[g] /\ inodes[f] # 0 => f = g

\* The order of the listing, for the path column p.
Bef(p, g, f) == p[g] < p[f] \/ (p[g] = p[f] /\ g < f)

\* ... is a strict total order.
LEMMA BefOrder ==
  ASSUME NEW p \in [Files -> Nat]
  PROVE  /\ \A f \in Files : ~ Bef(p, f, f)
         /\ \A f, g \in Files : f = g \/ Bef(p, f, g) \/ Bef(p, g, f)
         /\ \A f, g \in Files : ~ (Bef(p, f, g) /\ Bef(p, g, f))
         /\ \A f, g, h \in Files : Bef(p, f, g) /\ Bef(p, g, h) => Bef(p, f, h)
<1>1. \A f \in Files : f \in Nat /\ p[f] \in Nat
  OBVIOUS
<1> QED BY <1>1 DEF Bef

\* Of two files of a set, the one that is listed first has fewer before it.
LEMMA RankStrict ==
  ASSUME NEW p \in [Files -> Nat], NEW S \in SUBSET Files
  PROVE  /\ Cardinality(S) \in Nat
         /\ \A f \in S : /\ Cardinality({x \in S : Bef(p, x, f)}) \in Nat
                         /\ Cardinality({x \in S : Bef(p, x, f)}) < Cardinality(S)
         /\ \A f, g \in S : Bef(p, f, g) => Cardinality({x \in S : Bef(p, x, f)})
                                              < Cardinality({x \in S : Bef(p, x, g)})
<1> DEFINE B(f) == {x \in S : Bef(p, x, f)}
<1>0. IsFiniteSet(S)
  BY FS_Subset
<1>1. \A f \in S : IsFiniteSet(B(f)) /\ Cardinality(B(f)) \in Nat
  <2> TAKE f \in S
  <2>1. B(f) \subseteq S
    OBVIOUS
  <2>2. IsFiniteSet(B(f))
    BY <1>0, <2>1, FS_Subset
  <2> QED BY <2>2, FS_CardinalityType
<1>2. Cardinality(S) \in Nat
  BY <1>0, FS_CardinalityType
<1>3. ASSUME NEW f \in S PROVE Cardinality(B(f)) < Cardinality(S)
  <2>1. B(f) \subseteq S /\ B(f) # S
    <3>1. f \notin B(f)
      BY BefOrder
    <3> QED BY <3>1
  <2>2. Cardinality(B(f)) <= Cardinality(S) /\ (Cardinality(B(f)) = Cardinality(S) => B(f) = S)
    BY <1>0, <2>1, FS_Subset
  <2> QED BY <2>1, <2>2, <1>1, <1>2
<1>4. ASSUME NEW f \in S, NEW g \in S, Bef(p, f, g) PROVE Cardinality(B(f)) < Cardinality(B(g))
  <2>1. B(f) \subseteq B(g) /\ B(f) # B(g)
    <3>1. f \in B(g) /\ f \notin B(f)
      BY <1>4, BefOrder
    <3>2. \A x \in S : Bef(p, x, f) => Bef(p, x, g)
      BY <1>4, BefOrder
    <3> QED BY <3>1, <3>2
  <2>2. Cardinality(B(f)) <= Cardinality(B(g))
        /\ (Cardinality(B(f)) = Cardinality(B(g)) => B(f) = B(g))
    BY <2>1, <1>1, FS_Subset
  <2> QED BY <2>1, <2>2, <1>1
<1> HIDE DEF B
<1>5. /\ \A f \in S : Cardinality(B(f)) \in Nat /\ Cardinality(B(f)) < Cardinality(S)
      /\ \A f, g \in S : Bef(p, f, g) => Cardinality(B(f)) < Cardinality(B(g))
  BY <1>1, <1>3, <1>4
<1> QED BY <1>2, <1>5 DEF B

\* get_or_allocate keeps the inodes that are there, gives one to every file it
\* is asked for, and keeps all of them distinct and below the counter.
LEMMA Allocates ==
  ASSUME NEW S \in SUBSET Files, NEW W \in SUBSET Files, TypeOK, InodesDistinct,
         get_or_allocate(S, W)
  PROVE  /\ inodes' \in [Files -> Nat] /\ next_inode' \in Nat
         /\ InodesDistinct'
         /\ \A f \in Files : inodes[f] # 0 => inodes'[f] = inodes[f]
         /\ \A f \in S : inodes'[f] # 0
<1> DEFINE fresh == {f \in S : inodes[f] = 0}
           used == fresh \cup W
           rank(f) == Cardinality({g \in used : Bef(path, g, f)})
<1>0. path \in [Files -> Nat]
  BY DEF TypeOK
<1>1. fresh \subseteq Files /\ fresh \subseteq used /\ used \subseteq Files
  OBVIOUS
<1>2. /\ Cardinality(used) \in Nat
      /\ \A f \in used : rank(f) \in Nat /\ rank(f) < Cardinality(used)
      /\ \A f, g \in used : Bef(path, f, g) => rank(f) < rank(g)
  BY <1>0, <1>1, RankStrict, Zenon
<1>3. /\ inodes' = [f \in Files |-> IF f \in fresh THEN next_inode + rank(f) ELSE inodes[f]]
      /\ next_inode' = next_inode + Cardinality(used)
  BY DEF get_or_allocate, Before, Bef
<1>4. \A f \in Files : f \in fresh => inodes[f] = 0
  OBVIOUS
<1>5. \A f \in S : f \notin fresh => inodes[f] # 0
  OBVIOUS
<1>6. inodes \in [Files -> Nat] /\ next_inode \in Nat
  BY DEF TypeOK
<1>7. /\ next_inode > FUSE_ROOT_INODE
      /\ \A f \in Files : inodes[f] < next_inode /\ inodes[f] # FUSE_ROOT_INODE
  BY DEF InodesDistinct
<1>8. \A f, g \in Files : inodes[f] = inodes[g] /\ inodes[f] # 0 => f = g
  BY DEF InodesDistinct
<1> HIDE DEF fresh, used, rank
<1>9. \A f \in Files : inodes'[f] = IF f \in fresh THEN next_inode + rank(f) ELSE inodes[f]
  BY <1>3
<1>10. inodes' \in [Files -> Nat] /\ next_inode' \in Nat
  BY <1>1, <1>2, <1>3, <1>6
<1>11. /\ next_inode' > FUSE_ROOT_INODE
       /\ \A f \in Files : inodes'[f] < next_inode' /\ inodes'[f] # FUSE_ROOT_INODE
  BY <1>1, <1>2, <1>3, <1>6, <1>7, <1>9
<1>12. ASSUME NEW f \in Files, NEW g \in Files, inodes'[f] = inodes'[g], inodes'[f] # 0
       PROVE  f = g
  <2>1. CASE f \in fresh /\ g \in fresh
    <3>1. rank(f) = rank(g)
      BY <2>1, <1>1, <1>2, <1>6, <1>9, <1>12
    <3>2. ~ Bef(path, f, g) /\ ~ Bef(path, g, f)
      BY <3>1, <2>1, <1>1, <1>2
    <3> QED BY <3>2, <1>0, BefOrder
  <2>2. CASE f \notin fresh /\ g \notin fresh
    BY <2>2, <1>8, <1>9, <1>12
  <2>3. CASE f \in fresh /\ g \notin fresh
    BY <2>3, <1>1, <1>2, <1>6, <1>7, <1>9, <1>12
  <2>4. CASE f \notin fresh /\ g \in fresh
    BY <2>4, <1>1, <1>2, <1>6, <1>7, <1>9, <1>12
  <2> QED BY <2>1, <2>2, <2>3, <2>4
<1>13. \A f \in S : inodes'[f] # 0
  <2> TAKE f \in S
  <2>1. CASE f \in fresh
    BY <2>1, <1>1, <1>2, <1>4, <1>6, <1>7, <1>9
  <2>2. CASE f \notin fresh
    BY <2>2, <1>5, <1>9
  <2> QED BY <2>1, <2>2
<1>14. \A f \in Files : inodes[f] # 0 => inodes'[f] = inodes[f]
  BY <1>4, <1>9
<1> QED BY <1>10, <1>11, <1>12, <1>13, <1>14 DEF InodesDistinct

-----------------------------------------------------------------------------
\* The initial states satisfy the invariant.
LEMMA InitHandleInv == Init => HandleInv
BY DEF Init, HandleInv, TypeOK, ReadsAsOpened, Closed, Table, Handle, NoHandle

\* The operations on the files table give a table again.
LEMMA TableOps ==
  ASSUME NEW t \in Table(Files), NEW f \in Files
  PROVE  /\ \A v \in Nat \ {0} : upsert_cloud_item(t, f, v) \in Table(Files)
         /\ delete_if_present(t, f) \in Table(Files)
         /\ \A s \in FileState : update_file_state(t, f, s) \in Table(Files)
         /\ update_synced_at(t, f) \in Table(Files)
<1>1. t \in [Files -> Row \cup {NoRow}]
  BY DEF Table
<1>2. HasRow(t, f) => t[f] \in Row
  BY <1>1 DEF HasRow
<1>3. ASSUME NEW r \in Row \cup {NoRow} PROVE [t EXCEPT ![f] = r] \in Table(Files)
  BY <1>1 DEF Table
<1>4. ASSUME NEW v \in Nat \ {0} PROVE upsert_cloud_item(t, f, v) \in Table(Files)
  <2>1. HasRow(t, f) => [t[f] EXCEPT !.ver = v] \in Row
    BY <1>2 DEF Row
  <2>2. cloud_item_to_db_file(v) \in Row
    BY DEF cloud_item_to_db_file, Row, FileState
  <2> QED BY <1>3, <2>1, <2>2 DEF upsert_cloud_item, update_file, create_file
<1>5. delete_if_present(t, f) \in Table(Files)
  BY <1>3 DEF delete_if_present, delete_file
<1>6. ASSUME NEW s \in FileState PROVE update_file_state(t, f, s) \in Table(Files)
  <2>1. HasRow(t, f) => [t[f] EXCEPT !.state = s] \in Row
    BY <1>2 DEF Row
  <2> QED BY <1>3, <2>1 DEF update_file_state, update_file
<1>7. update_synced_at(t, f) \in Table(Files)
  <2>1. HasRow(t, f) => [t[f] EXCEPT !.stamped = TRUE] \in Row
    BY <1>2 DEF Row
  <2> QED BY <1>3, <2>1 DEF update_synced_at, update_file
<1> QED BY <1>4, <1>5, <1>6, <1>7

\* The part of the invariant that is about handles and downloads.
HandlesInv ==
    /\ downloading # NoFile => disk[downloading] = 0 /\ meant = downloading /\ next_fh \in Handle
    /\ \A h \in Handle : open_files[h] # NoFile => disk[open_files[h]] # 0
    /\ \A h \in Handle : h >= next_fh => open_files[h] = NoFile /\ handles[h] = NoHandle
    /\ ReadsAsOpened

\* What the kernel knows is so.
KnownInv == \A k \in known : k[1] # 0 /\ inodes[k[2]] = k[1]

\* The invariant in three parts.
LEMMA Parts ==
  /\ HandleInv <=> TypeOK /\ InodesDistinct /\ KnownInv /\ HandlesInv
  /\ HandleInv' <=> TypeOK' /\ InodesDistinct' /\ KnownInv' /\ HandlesInv'
BY DEF HandleInv, InodesDistinct, KnownInv, HandlesInv

\* A fresh handle on a copy that exists, of the file that the kernel meant.
LEMMA OpenedInv ==
  ASSUME NEW f \in Files, TypeOK, HandlesInv, disk' \in [Files -> Nat \cup {Broken}],
         \A h \in Handle : open_files[h] # NoFile => disk'[open_files[h]] = disk[open_files[h]],
         disk'[f] # 0, Opened(f, f, disk'[f]), downloading' = NoFile
  PROVE  /\ HandlesInv'
         /\ open_files' \in [Handle -> Files \cup {NoFile}]
         /\ next_fh' \in Nat
         /\ handles' \in [Handle -> [file : Files \cup {NoFile}, ver : Nat \cup {Broken}]]
<1>1. /\ open_files' = [open_files EXCEPT ![next_fh] = f]
      /\ handles' = [handles EXCEPT ![next_fh] = [file |-> f, ver |-> disk'[f]]]
      /\ next_fh \in Handle /\ next_fh' = next_fh + 1
  BY DEF Opened
<1>2. /\ open_files' \in [Handle -> Files \cup {NoFile}]
      /\ next_fh' \in Nat
      /\ handles' \in [Handle -> [file : Files \cup {NoFile}, ver : Nat \cup {Broken}]]
  BY <1>1 DEF TypeOK
<1>3. \A h \in Handle : open_files'[h] # NoFile => disk'[open_files'[h]] # 0
  BY <1>1 DEF TypeOK, HandlesInv
<1>4. \A h \in Handle : h >= next_fh' => open_files'[h] = NoFile /\ handles'[h] = NoHandle
  BY <1>1 DEF TypeOK, HandlesInv, Handle
<1>5. ReadsAsOpened'
  <2> SUFFICES ASSUME NEW h \in Handle, handles'[h] # NoHandle PROVE Read(h)' = handles'[h]
    BY DEF ReadsAsOpened
  <2>1. CASE h = next_fh
    BY <2>1, <1>1 DEF Read, read_file_at, TypeOK
  <2>2. CASE h # next_fh
    <3>1. handles'[h] = handles[h] /\ open_files'[h] = open_files[h]
      BY <2>2, <1>1 DEF TypeOK
    <3>2. Read(h) = handles[h]
      BY <3>1 DEF HandlesInv, ReadsAsOpened
    <3> QED BY <3>1, <3>2 DEF Read, read_file_at
  <2> QED BY <2>1, <2>2
<1> QED BY <1>2, <1>3, <1>4, <1>5 DEF HandlesInv

\* HandleInv is inductive.
LEMMA HandleStep == HandleInv /\ [Next]_vars => HandleInv'
<1> SUFFICES ASSUME TypeOK, InodesDistinct, KnownInv, HandlesInv, [Next]_vars
             PROVE  (TypeOK /\ InodesDistinct /\ KnownInv /\ HandlesInv)'
  BY Parts
<1> USE DEF vars, cloudVars, table, inodeVars, openVars, kernelVars
<1> DEFINE All == TypeOK /\ InodesDistinct /\ KnownInv /\ HandlesInv
<1>1. ASSUME NEW f \in Files, CloudPut(f) PROVE All'
  <2>1. name' \in [Files -> Nat]
    BY <1>1 DEF CloudPut, TypeOK
  <2> QED BY <1>1, <2>1 DEF CloudPut, TypeOK, InodesDistinct, KnownInv, HandlesInv,
                            ReadsAsOpened, Read, read_file_at
<1>2. ASSUME NEW f \in Files, CloudDelete(f) PROVE All'
  BY <1>2 DEF CloudDelete, TypeOK, InodesDistinct, KnownInv, HandlesInv, ReadsAsOpened, Read,
     read_file_at
<1>3. ASSUME NEW f \in Files, SyncUpsert(f) PROVE All'
  <2>1. rows' \in Table(Files)
    BY <1>3, TableOps DEF SyncUpsert, TypeOK
  <2>2. path' \in [Files -> Nat] /\ steady' \subseteq Files
    BY <1>3 DEF SyncUpsert, TypeOK
  <2> QED BY <2>1, <2>2, <1>3 DEF SyncUpsert, TypeOK, InodesDistinct, KnownInv, HandlesInv,
                            ReadsAsOpened, Read, read_file_at
<1>4. ASSUME NEW f \in Files, SyncDelete(f) PROVE All'
  <2>1. rows' \in Table(Files)
    BY <1>4, TableOps DEF SyncDelete, TypeOK
  <2> QED BY <2>1, <1>4 DEF SyncDelete, TypeOK, InodesDistinct, KnownInv, HandlesInv,
                            ReadsAsOpened, Read, read_file_at
<1>5. ASSUME NEW f \in Files, Lookup(f) PROVE All'
  <2>1. /\ inodes' \in [Files -> Nat] /\ next_inode' \in Nat
        /\ InodesDistinct'
        /\ \A g \in Files : inodes[g] # 0 => inodes'[g] = inodes[g]
        /\ inodes'[f] # 0
    BY <1>5, Allocates DEF Lookup
  <2>2. known' \subseteq Nat \X Files
    BY <2>1, <1>5 DEF Lookup, TypeOK
  <2>3. KnownInv'
    <3>1. \A k \in known : k[1] # 0 /\ inodes'[k[2]] = k[1]
      BY <2>1 DEF TypeOK, KnownInv
    <3>2. \A k \in known' : k \in known \/ k = <<inodes'[f], f>>
      BY <1>5 DEF Lookup
    <3> QED BY <3>1, <3>2, <2>1 DEF KnownInv
  <2>4. HandlesInv'
    BY <1>5 DEF Lookup, HandlesInv, ReadsAsOpened, Read, read_file_at
  <2>5. TypeOK'
    BY <2>1, <2>2, <1>5 DEF Lookup, TypeOK
  <2> QED BY <2>1, <2>3, <2>4, <2>5
<1>15. ASSUME NEW f \in Files, LookupFails(f) PROVE All'
  <2>1. /\ inodes' \in [Files -> Nat] /\ next_inode' \in Nat
        /\ InodesDistinct'
        /\ \A g \in Files : inodes[g] # 0 => inodes'[g] = inodes[g]
    BY <1>15, Allocates DEF LookupFails
  <2>2. KnownInv'
    BY <2>1, <1>15 DEF LookupFails, TypeOK, KnownInv
  <2>3. HandlesInv'
    BY <1>15 DEF LookupFails, HandlesInv, ReadsAsOpened, Read, read_file_at
  <2>4. TypeOK'
    BY <2>1, <1>15 DEF LookupFails, Fault, TypeOK
  <2> QED BY <2>1, <2>2, <2>3, <2>4
<1>6. ASSUME Opendir PROVE All'
  BY <1>6 DEF Opendir, Children, TypeOK, InodesDistinct, KnownInv, HandlesInv, ReadsAsOpened, Read,
     read_file_at
<1>7. ASSUME Readdir PROVE All'
  <2>0. PICK D \in SUBSET Children :
          LET S == Children \ D
              shown == {f \in S : Index(S, f) \in stream.off + 1 .. stream.off + BufSize}
          IN  /\ IF D = {} THEN UNCHANGED faults ELSE Fault
              /\ \E W \in SUBSET {f \in D : inodes[f] = 0} : get_or_allocate(S, W)
              /\ known' = known \cup {<<inodes'[f], f>> : f \in shown}
              /\ stream' = [open |-> stream.off < Entries(S),
                            off |-> NextOffset(S),
                            seen |-> stream.seen \cup shown]
              /\ steady' = {g \in steady \ D : \A d \in D : Past(d) => Before(g, d)}
    BY <1>7 DEF Readdir
  <2> DEFINE S == Children \ D
             shown == {f \in S : Index(S, f) \in stream.off + 1 .. stream.off + BufSize}
  <2>a. PICK W \in SUBSET {f \in D : inodes[f] = 0} : get_or_allocate(S, W)
    BY <2>0
  <2>b. S \in SUBSET Files /\ W \in SUBSET Files
    BY DEF Children
  <2>1. /\ inodes' \in [Files -> Nat] /\ next_inode' \in Nat
        /\ InodesDistinct'
        /\ \A g \in Files : inodes[g] # 0 => inodes'[g] = inodes[g]
        /\ \A g \in S : inodes'[g] # 0
    BY <2>a, <2>b, Allocates
  <2>2. known' = known \cup {<<inodes'[f], f>> : f \in shown}
    BY <2>0
  <2>3. Entries(S) \in Nat
    <3>1. IsFiniteSet(S)
      BY <2>b, FS_Subset
    <3> QED BY <3>1, FS_CardinalityType DEF Entries
  <2>4. stream' \in [open : BOOLEAN, off : Nat, seen : SUBSET Files]
    <3>1. stream.seen \cup shown \subseteq Files
      BY <2>b DEF TypeOK
    <3>2. stream' = [open |-> stream.off < Entries(S), off |-> NextOffset(S),
                     seen |-> stream.seen \cup shown]
      BY <2>0
    <3> HIDE DEF shown
    <3>3. stream.off \in Nat /\ stream.off + BufSize \in Nat
      BY DEF TypeOK
    <3>4. NextOffset(S) \in Nat /\ (stream.off < Entries(S)) \in BOOLEAN
      BY <2>3, <3>3 DEF NextOffset
    <3> QED BY <3>1, <3>2, <3>4
  <2>c. faults' \in Nat /\ steady' \subseteq Files
    BY <2>0 DEF Fault, TypeOK
  <2>5. shown \subseteq S /\ shown \subseteq Files
    BY <2>b
  <2> HIDE DEF shown
  <2>6. known' \subseteq Nat \X Files
    BY <2>1, <2>2, <2>5 DEF TypeOK
  <2>7. KnownInv'
    <3>1. \A k \in known : k[1] # 0 /\ inodes'[k[2]] = k[1]
      BY <2>1 DEF TypeOK, KnownInv
    <3>2. \A k \in known' : k \in known \/ \E f \in shown : k = <<inodes'[f], f>>
      BY <2>2
    <3> QED BY <3>1, <3>2, <2>1, <2>5 DEF KnownInv
  <2>8. HandlesInv'
    BY <1>7 DEF Readdir, HandlesInv, ReadsAsOpened, Read, read_file_at
  <2>9. TypeOK'
    BY <2>1, <2>4, <2>6, <2>c, <1>7 DEF Readdir, TypeOK
  <2> QED BY <2>1, <2>7, <2>8, <2>9
<1>8. ASSUME NEW k \in known, NEW g \in Files, OpenCached(k[1], k[2], g) PROVE All'
  <2>1. k[2] \in Files /\ k[2] = g
    BY <1>8 DEF OpenCached, Resolves, TypeOK, KnownInv, InodesDistinct
  <2>2. disk' = disk /\ disk'[g] # 0 /\ Opened(g, g, disk'[g]) /\ downloading' = NoFile
    BY <1>8, <2>1 DEF OpenCached
  <2>3. /\ HandlesInv'
        /\ open_files' \in [Handle -> Files \cup {NoFile}]
        /\ next_fh' \in Nat
        /\ handles' \in [Handle -> [file : Files \cup {NoFile}, ver : Nat \cup {Broken}]]
    BY <2>2, OpenedInv DEF TypeOK
  <2>4. TypeOK' /\ InodesDistinct' /\ KnownInv'
    BY <2>3, <1>8 DEF OpenCached, TypeOK, InodesDistinct, KnownInv
  <2> QED BY <2>3, <2>4
<1>9. ASSUME NEW k \in known, NEW g \in Files, OpenMissing(k[1], k[2], g) PROVE All'
  <2>1. k[2] \in Files /\ k[2] = g
    BY <1>9 DEF OpenMissing, Resolves, TypeOK, KnownInv, InodesDistinct
  <2>2. rows' \in Table(Files)
    BY <1>9, TableOps DEF OpenMissing, TypeOK, FileState
  <2>3. HandlesInv'
    BY <2>1, <1>9 DEF OpenMissing, HandlesInv, ReadsAsOpened, Read, read_file_at
  <2> QED BY <2>1, <2>2, <2>3, <1>9 DEF OpenMissing, TypeOK, InodesDistinct, KnownInv
<1>10. ASSUME DownloadDone PROVE All'
  <2> DEFINE g == downloading
  <2>1. g \in Files /\ meant = g /\ disk[g] = 0 /\ cloud[g] # 0
    BY <1>10 DEF DownloadDone, TypeOK, HandlesInv
  <2>2. disk' = [disk EXCEPT ![g] = cloud[g]] /\ Opened(g, g, cloud[g]) /\ downloading' = NoFile
    BY <1>10, <2>1 DEF DownloadDone
  <2>3. rows' \in Table(Files)
    <3>1. update_file_state(rows, g, "Synced") \in Table(Files)
      BY <2>1, TableOps DEF TypeOK, FileState
    <3> QED BY <3>1, <1>10, <2>1, TableOps DEF DownloadDone
  <2>4. disk' \in [Files -> Nat \cup {Broken}] /\ disk'[g] = cloud[g]
    BY <2>1, <2>2 DEF TypeOK
  <2>5. \A h \in Handle : open_files[h] # NoFile => disk'[open_files[h]] = disk[open_files[h]]
    BY <2>1, <2>2 DEF TypeOK, HandlesInv
  <2>6. /\ HandlesInv'
        /\ open_files' \in [Handle -> Files \cup {NoFile}]
        /\ next_fh' \in Nat
        /\ handles' \in [Handle -> [file : Files \cup {NoFile}, ver : Nat \cup {Broken}]]
    BY <2>1, <2>2, <2>4, <2>5, OpenedInv
  <2>7. TypeOK' /\ InodesDistinct' /\ KnownInv'
    BY <2>3, <2>4, <2>6, <1>10 DEF DownloadDone, TypeOK, InodesDistinct, KnownInv
  <2> QED BY <2>6, <2>7
<1>11. ASSUME DownloadFails PROVE All'
  <2>1. downloading \in Files /\ disk[downloading] = 0
    BY <1>11 DEF DownloadFails, TypeOK, HandlesInv
  <2>2. /\ disk' \in [Files -> Nat \cup {Broken}]
        /\ \A f \in Files : f # downloading => disk'[f] = disk[f]
    BY <1>11, <2>1 DEF DownloadFails, TypeOK
  <2>3. rows' \in Table(Files)
    <3>1. rows \in Table(Files) /\ "Error" \in FileState
      BY DEF TypeOK, FileState
    <3>2. update_file_state(rows, downloading, "Error") \in Table(Files)
      BY <2>1, <3>1, TableOps
    <3> QED BY <1>11, <3>1, <3>2 DEF DownloadFails
  <2>4. HandlesInv'
    BY <1>11, <2>1, <2>2 DEF DownloadFails, TypeOK, HandlesInv, ReadsAsOpened, Read, read_file_at
  <2> QED BY <2>2, <2>3, <2>4, <1>11 DEF DownloadFails, TypeOK, InodesDistinct, KnownInv
<1>12. ASSUME NEW h \in Handle, Release(h) PROVE All'
  <2>1. /\ open_files' \in [Handle -> Files \cup {NoFile}]
        /\ handles' \in [Handle -> [file : Files \cup {NoFile}, ver : Nat \cup {Broken}]]
    BY <1>12 DEF Release, TypeOK, NoHandle
  <2>2. HandlesInv'
    BY <1>12 DEF Release, TypeOK, HandlesInv, ReadsAsOpened, Read, read_file_at
  <2> QED BY <2>1, <2>2, <1>12 DEF Release, TypeOK, InodesDistinct, KnownInv
<1>13. ASSUME Remount PROVE All'
  <2>1. disk' \in [Files -> Nat \cup {Broken}]
    BY <1>13 DEF Remount, TypeOK
  <2>2. HandlesInv'
    BY <1>13 DEF Remount, HandlesInv, ReadsAsOpened
  <2>3. next_inode' \in Nat /\ InodesDistinct'
    <3>1. PICK m \in {inodes[f] : f \in Files} \cup {FUSE_ROOT_INODE} :
            /\ \A f \in Files : inodes[f] <= m
            /\ m >= FUSE_ROOT_INODE
            /\ next_inode' = m + 1
      BY <1>13 DEF Remount
    <3>2. m \in Nat /\ inodes' = inodes /\ inodes \in [Files -> Nat]
      BY <1>13 DEF Remount, TypeOK
    <3> QED BY <3>1, <3>2 DEF InodesDistinct
  <2> QED BY <2>1, <2>2, <2>3, <1>13 DEF Remount, TypeOK, KnownInv, NoHandle, Closed
<1>14. ASSUME UNCHANGED vars PROVE All'
  BY <1>14 DEF TypeOK, InodesDistinct, KnownInv, HandlesInv, ReadsAsOpened, Read,
     read_file_at
<1> QED BY <1>1, <1>2, <1>3, <1>4, <1>5, <1>6, <1>7, <1>8, <1>9, <1>10, <1>11, <1>12, <1>13,
           <1>14, <1>15 DEF Next

-----------------------------------------------------------------------------
\* Every reachable state is well typed.
THEOREM TypeCorrect == Spec => []TypeOK
<1>1. HandleInv => TypeOK
  BY DEF HandleInv
<1> QED BY <1>1, InitHandleInv, HandleStep, PTL DEF Spec

\* For any number of files, handles and mounts: read on a handle keeps replying
\* the version that was opened of the file that the kernel meant, whatever the
\* sync thread and the other callbacks do.
THEOREM ReadSafety == Spec => []ReadsAsOpened
<1>1. HandleInv => ReadsAsOpened
  BY DEF HandleInv
<1> QED BY <1>1, InitHandleInv, HandleStep, PTL DEF Spec

-----------------------------------------------------------------------------
\* The place of f among the entries when the files S are shown, for the path column p.
UpTo(p, S, f) == {g \in S : g = f \/ Bef(p, g, f)}
Place(p, S, f) == 2 + Cardinality(UpTo(p, S, f))

\* A place, whatever the order.
LEMMA PlaceType ==
  ASSUME NEW p, NEW S \in SUBSET Files, NEW f
  PROVE  /\ IsFiniteSet(UpTo(p, S, f)) /\ Cardinality(UpTo(p, S, f)) \in Nat
         /\ Place(p, S, f) \in Nat /\ Place(p, S, f) >= 2
         /\ Cardinality(S) \in Nat /\ Place(p, S, f) <= 2 + Cardinality(S)
         /\ f \in S => Place(p, S, f) >= 3
<1>1. IsFiniteSet(S) /\ UpTo(p, S, f) \in SUBSET S
  BY FS_Subset DEF UpTo
<1>2. /\ IsFiniteSet(UpTo(p, S, f)) /\ Cardinality(UpTo(p, S, f)) <= Cardinality(S)
      /\ Cardinality(UpTo(p, S, f)) \in Nat /\ Cardinality(S) \in Nat
  BY <1>1, FS_Subset, FS_CardinalityType
<1>3. f \in S => Cardinality(UpTo(p, S, f)) # 0
  BY <1>2, FS_EmptySet DEF UpTo
<1> QED BY <1>2, <1>3 DEF Place

\* Places go up as more files come before.
LEMMA PlaceUp ==
  ASSUME NEW p, NEW q, NEW S \in SUBSET Files, NEW T \in SUBSET Files, NEW f,
         UpTo(p, S, f) \subseteq UpTo(q, T, f)
  PROVE  Place(p, S, f) <= Place(q, T, f)
<1>1. Cardinality(UpTo(p, S, f)) <= Cardinality(UpTo(q, T, f))
  BY PlaceType, FS_Subset
<1> QED BY <1>1, PlaceType DEF Place

\* A file that is listed first has the lower place.
LEMMA PlaceStrict ==
  ASSUME NEW p \in [Files -> Nat], NEW S \in SUBSET Files, NEW f \in S, NEW g \in S,
         Bef(p, f, g)
  PROVE  Place(p, S, f) < Place(p, S, g)
<1>1. UpTo(p, S, f) \subseteq UpTo(p, S, g)
  BY BefOrder DEF UpTo
<1>2. g \in UpTo(p, S, g) /\ g \notin UpTo(p, S, f)
  BY BefOrder DEF UpTo
<1>3. /\ Cardinality(UpTo(p, S, f)) <= Cardinality(UpTo(p, S, g))
      /\ Cardinality(UpTo(p, S, g)) # Cardinality(UpTo(p, S, f))
  BY <1>1, <1>2, PlaceType, FS_Subset
<1> QED BY <1>3, PlaceType DEF Place

\* Without f, the places before f stay, and those after f are f's or higher.
LEMMA PlaceRemove ==
  ASSUME NEW p \in [Files -> Nat], NEW S \in SUBSET Files, NEW f \in S, NEW g \in S
  PROVE  /\ Bef(p, f, g) => Place(p, S, f) <= Place(p, S \ {f}, g)
         /\ Bef(p, g, f) => Place(p, S \ {f}, g) = Place(p, S, g)
<1>1. ASSUME Bef(p, g, f) PROVE Place(p, S \ {f}, g) = Place(p, S, g)
  <2>1. UpTo(p, S \ {f}, g) = UpTo(p, S, g)
    BY <1>1, BefOrder DEF UpTo
  <2> QED BY <2>1 DEF Place
<1>2. ASSUME Bef(p, f, g) PROVE Place(p, S, f) <= Place(p, S \ {f}, g)
  <2> DEFINE A == UpTo(p, S, f)
             C == (A \ {f}) \cup {g}
  <2>1. f \in A /\ g \notin A /\ C \subseteq UpTo(p, S \ {f}, g)
    <3>1. f \in A /\ g \notin A /\ f # g
      BY <1>2, BefOrder DEF UpTo
    <3>2. \A h \in A \ {f} : h \in S \ {f} /\ Bef(p, h, g)
      BY <1>2, BefOrder DEF UpTo
    <3> QED BY <3>1, <3>2 DEF UpTo
  <2>2. IsFiniteSet(A) /\ Cardinality(A) \in Nat
    BY PlaceType
  <2>3. /\ IsFiniteSet(UpTo(p, S \ {f}, g)) /\ Cardinality(UpTo(p, S \ {f}, g)) \in Nat
    BY PlaceType
  <2> HIDE DEF A
  <2>4. IsFiniteSet(A \ {f}) /\ Cardinality(A \ {f}) = Cardinality(A) - 1
    BY <2>1, <2>2, FS_RemoveElement
  <2>5. Cardinality(C) = Cardinality(A \ {f}) + 1
    BY <2>1, <2>4, FS_AddElement
  <2>6. Cardinality(C) <= Cardinality(UpTo(p, S \ {f}, g))
    BY <2>1, <2>3, FS_Subset
  <2> QED BY <2>2, <2>3, <2>4, <2>5, <2>6 DEF Place, A
<1> QED BY <1>1, <1>2

\* Every place up to the last is some file's.
LEMMA PlaceTaken ==
  ASSUME NEW p \in [Files -> Nat], NEW S \in SUBSET Files,
         NEW n \in 3..(2 + Cardinality(S))
  PROVE  \E x \in S : Place(p, S, x) = n
<1> DEFINE T == 3..(2 + Cardinality(S))
           F == [x \in S |-> Place(p, S, x)]
<1>1. Cardinality(S) \in Nat /\ IsFiniteSet(S)
  BY FS_Subset, FS_CardinalityType
<1>2. IsFiniteSet(T) /\ Cardinality(T) = Cardinality(S)
  BY <1>1, FS_Interval
<1>3. \A x \in S : Place(p, S, x) \in T
  BY PlaceType
<1>4. \A x, y \in S : Place(p, S, x) = Place(p, S, y) => x = y
  <2> SUFFICES ASSUME NEW x \in S, NEW y \in S, x # y PROVE Place(p, S, x) # Place(p, S, y)
    OBVIOUS
  <2>1. Bef(p, x, y) \/ Bef(p, y, x)
    BY BefOrder
  <2> QED BY <2>1, PlaceStrict, PlaceType
<1>5. F \in Injection(S, T)
  BY <1>3, <1>4 DEF Injection, IsInjective
<1> HIDE DEF T, F
<1>6. F \in Surjection(S, T)
  BY <1>2, <1>5, FS_Injection
<1>7. n \in T
  BY DEF T
<1>8. \E x \in S : F[x] = n
  BY <1>6, <1>7 DEF Surjection
<1> QED BY <1>8 DEF F

\* When no file up to the place n is left out, a file behind n stays behind n.
LEMMA PlaceDrop ==
  ASSUME NEW p \in [Files -> Nat], NEW T \in SUBSET Files, NEW S \in SUBSET T, NEW f \in S,
         NEW n \in Nat, Place(p, T, f) > n, \A d \in T : Place(p, T, d) <= n => d \in S
  PROVE  Place(p, S, f) > n
<1>1. CASE n < 3
  BY <1>1, PlaceType
<1>2. CASE n >= 3
  <2>1. n + 1 \in 3..(2 + Cardinality(T))
    BY <1>2, PlaceType
  <2>2. PICK x \in T : Place(p, T, x) = n + 1
    BY <2>1, PlaceTaken
  <2>3. \A g \in T : Bef(p, g, x) => g \in S
    BY <2>2, PlaceStrict, PlaceType
  <2>4. f = x \/ Bef(p, x, f)
    <3>1. ~ Bef(p, f, x)
      BY <2>2, PlaceStrict, PlaceType
    <3> QED BY <3>1, BefOrder
  <2> DEFINE A == UpTo(p, T, x)
             C == (A \ {x}) \cup {f}
  <2>5. x \in A /\ f \notin A \ {x} /\ C \subseteq UpTo(p, S, f)
    BY <2>3, <2>4, BefOrder DEF UpTo
  <2>6. IsFiniteSet(A) /\ Cardinality(A) = n - 1
    BY <2>2, PlaceType DEF Place
  <2>7. IsFiniteSet(UpTo(p, S, f)) /\ Cardinality(UpTo(p, S, f)) \in Nat
    BY PlaceType
  <2> HIDE DEF A
  <2>8. IsFiniteSet(A \ {x}) /\ Cardinality(A \ {x}) = Cardinality(A) - 1
    BY <2>5, <2>6, FS_RemoveElement
  <2>a. Cardinality(C) = Cardinality(A \ {x}) + 1
    BY <2>5, <2>8, FS_AddElement
  <2>9. Cardinality(C) = n - 1
    BY <2>6, <2>8, <2>a
  <2>10. Cardinality(C) <= Cardinality(UpTo(p, S, f))
    BY <2>5, <2>7, FS_Subset
  <2> QED BY <2>7, <2>9, <2>10 DEF Place
<1> QED BY <1>1, <1>2

\* Rows are only taken away by delete_if_present.
LEMMA RowsStay ==
  ASSUME NEW t \in Table(Files), NEW f \in Files, NEW g \in Files
  PROVE  /\ \A v \in Nat \ {0} : HasRow(t, g) => HasRow(upsert_cloud_item(t, f, v), g)
         /\ \A s \in FileState : HasRow(t, g) => HasRow(update_file_state(t, f, s), g)
         /\ HasRow(t, g) => HasRow(update_synced_at(t, f), g)
         /\ HasRow(delete_if_present(t, f), g) <=> (HasRow(t, g) /\ g # f)
<1>1. t \in [Files -> Row \cup {NoRow}]
  BY DEF Table
<1>2. \A h \in Files : HasRow(t, h) => t[h] \in Row
  BY <1>1 DEF HasRow
<1>3. \A r \in Row : r # NoRow
  BY DEF Row, NoRow
<1>4. ASSUME NEW r \in Row, HasRow(t, g) PROVE HasRow([t EXCEPT ![f] = r], g)
  BY <1>1, <1>3, <1>4 DEF HasRow
<1>5. ASSUME NEW v \in Nat \ {0}, HasRow(t, g) PROVE HasRow(upsert_cloud_item(t, f, v), g)
  <2>1. HasRow(t, f) => [t[f] EXCEPT !.ver = v] \in Row
    BY <1>2 DEF Row
  <2>2. cloud_item_to_db_file(v) \in Row
    BY DEF cloud_item_to_db_file, Row, FileState
  <2> QED BY <1>4, <1>5, <2>1, <2>2 DEF upsert_cloud_item, update_file, create_file
<1>6. ASSUME NEW s \in FileState, HasRow(t, g) PROVE HasRow(update_file_state(t, f, s), g)
  <2>1. HasRow(t, f) => [t[f] EXCEPT !.state = s] \in Row
    BY <1>2 DEF Row
  <2> QED BY <1>4, <1>6, <2>1 DEF update_file_state, update_file
<1>7. ASSUME HasRow(t, g) PROVE HasRow(update_synced_at(t, f), g)
  <2>1. HasRow(t, f) => [t[f] EXCEPT !.stamped = TRUE] \in Row
    BY <1>2 DEF Row
  <2> QED BY <1>4, <1>7, <2>1 DEF update_synced_at, update_file
<1>8. HasRow(delete_if_present(t, f), g) <=> (HasRow(t, g) /\ g # f)
  BY <1>1 DEF delete_if_present, delete_file, HasRow
<1> QED BY <1>5, <1>6, <1>7, <1>8

\* ListingInv is inductive: as entries are added before it, the place of a file only goes
\* up, so that what lies before the offset has been there, or is a repetition.
LEMMA ListingStep ==
  ASSUME ListingInv, TypeOK', [Next]_vars
  PROVE  ListingInv'
<1> USE DEF vars, cloudVars, table, inodeVars, openVars, kernelVars
<1>0. /\ TypeOK /\ steady \subseteq Children
      /\ \A f \in steady : Index(Children, f) <= stream.off => f \in stream.seen
      /\ ListingComplete
  BY DEF ListingInv
<1>1. /\ Children \in SUBSET Files /\ Children' \in SUBSET Files /\ stream.off \in Nat
      /\ path \in [Files -> Nat] /\ path' \in [Files -> Nat]
  BY <1>0 DEF Children, TypeOK
<1>2. /\ \A S, f : Index(S, f) = Place(path, S, f)
      /\ \A f : Index(Children, f)' = Place(path', Children', f)
      /\ \A f, g : (Before(f, g) <=> Bef(path, f, g)) /\ (Before(f, g)' <=> Bef(path', f, g))
  BY DEF Index, Place, UpTo, Before, Bef
<1>p. \A f : /\ Index(Children, f) \in Nat /\ Index(Children, f)' \in Nat
             /\ Index(Children, f)' > 0
  BY <1>1, <1>2, PlaceType
<1>3. ASSUME Children \subseteq Children', UNCHANGED <<path, stream, steady>>
      PROVE  ListingInv'
  <2>1. \A f : Index(Children, f) <= Index(Children, f)'
    <3> SUFFICES ASSUME NEW f PROVE Place(path, Children, f) <= Place(path', Children', f)
      BY <1>2
    <3>1. UpTo(path, Children, f) \subseteq UpTo(path', Children', f)
      BY <1>3 DEF UpTo
    <3> QED BY <1>1, <3>1, PlaceUp
  <2>2. \A f \in steady : Index(Children, f)' <= stream.off => f \in stream.seen
    BY <1>0, <1>1, <1>p, <2>1
  <2> QED BY <1>0, <1>3, <2>2 DEF ListingInv, ListingComplete
<1>4. ASSUME NEW f \in Files, SyncDelete(f) PROVE ListingInv'
  <2>1. /\ stream' = stream /\ path' = path /\ rows' = delete_if_present(rows, f)
        /\ f \in Children
        /\ steady' = {g \in steady \ {f} : Past(f) => Before(g, f)}
    BY <1>4 DEF SyncDelete, Children
  <2>2. Children' = Children \ {f}
    BY <1>0, <2>1, RowsStay DEF Children, TypeOK
  <2>3. ASSUME NEW g \in steady', Index(Children, g)' <= stream.off PROVE g \in stream.seen
    <3>0. g \in Children /\ g \in steady /\ g # f
      BY <1>0, <2>1
    <3>1. CASE Bef(path, g, f)
      <4>1. Index(Children, g)' = Index(Children, g)
        <5>1. Place(path, Children \ {f}, g) = Place(path, Children, g)
          BY <1>1, <2>1, <3>0, <3>1, PlaceRemove
        <5> QED BY <1>2, <2>1, <2>2, <5>1
      <4> QED BY <1>0, <2>3, <3>0, <4>1
    <3>2. CASE Bef(path, f, g)
      <4>1. ~ Past(f)
        BY <1>1, <1>2, <2>1, <2>3, <3>0, <3>2, BefOrder
      <4>2. Index(Children, f) > stream.off
        BY <1>1, <1>p, <2>1, <4>1 DEF Past
      <4>3. Index(Children, f) <= Index(Children, g)'
        <5>1. Place(path, Children, f) <= Place(path, Children \ {f}, g)
          BY <1>1, <2>1, <3>0, <3>2, PlaceRemove
        <5> QED BY <1>2, <2>1, <2>2, <5>1
      <4> QED BY <1>1, <1>p, <2>3, <4>2, <4>3
    <3> QED BY <1>1, <3>0, <3>1, <3>2, BefOrder
  <2>4. steady' \subseteq steady /\ steady' \subseteq Children'
    BY <1>0, <2>1, <2>2
  <2> QED BY <1>0, <2>1, <2>3, <2>4 DEF ListingInv, ListingComplete
<1>5. ASSUME Opendir PROVE ListingInv'
  <2>1. /\ stream'.open /\ stream'.off = 0 /\ rows' = rows /\ steady' = Children
    BY <1>5 DEF Opendir
  <2>2. Children' = Children
    BY <2>1 DEF Children
  <2>3. \A f : ~ (Index(Children, f)' <= 0)
    BY <1>p
  <2> QED BY <2>1, <2>2, <2>3 DEF ListingInv, ListingComplete
<1>6. ASSUME Readdir PROVE ListingInv'
  <2>0. PICK D \in SUBSET Children :
          LET S == Children \ D
              shown == {f \in S : Index(S, f) \in stream.off + 1 .. stream.off + BufSize}
          IN  /\ stream' = [open |-> stream.off < Entries(S),
                            off |-> NextOffset(S),
                            seen |-> stream.seen \cup shown]
              /\ steady' = {g \in steady \ D : \A d \in D : Past(d) => Before(g, d)}
    BY <1>6 DEF Readdir
  <2> DEFINE S == Children \ D
             shown == {f \in S : Index(S, f) \in stream.off + 1 .. stream.off + BufSize}
  <2>1. /\ stream' = [open |-> stream.off < Entries(S), off |-> NextOffset(S),
                      seen |-> stream.seen \cup shown]
        /\ steady' = {g \in steady \ D : \A d \in D : Past(d) => Before(g, d)}
    BY <2>0
  <2>2. stream.open /\ rows' = rows /\ path' = path /\ S \in SUBSET Files /\ S \subseteq Children
    BY <1>1, <1>6 DEF Readdir
  <2>3. Children' = Children /\ \A f : Index(Children, f)' = Index(Children, f)
    BY <2>2 DEF Children, Index, Before
  <2>4. /\ Entries(S) \in Nat
        /\ \A f : Index(S, f) \in Nat /\ Index(S, f) <= Entries(S)
        /\ \A f : Index(S, f) <= Index(Children, f)
    <3>1. \A f : Index(S, f) \in Nat /\ Cardinality(S) \in Nat /\ Index(S, f) <= 2 + Cardinality(S)
      BY <1>2, <2>2, PlaceType
    <3>2. ASSUME NEW f PROVE Index(S, f) <= Index(Children, f)
      <4>1. UpTo(path, S, f) \subseteq UpTo(path, Children, f)
        BY DEF UpTo
      <4> QED BY <1>1, <1>2, <2>2, <4>1, PlaceUp
    <3> QED BY <3>1, <3>2 DEF Entries
  <2>5. ASSUME NEW f \in steady', Index(Children, f) > stream.off
        PROVE  Index(S, f) > stream.off
    <3>1. f \in S /\ \A d \in D : Past(d) => Bef(path, f, d)
      BY <1>0, <1>2, <2>1
    <3>2. ASSUME NEW d \in Children, Place(path, Children, d) <= stream.off PROVE d \in S
      <4> SUFFICES ASSUME d \in D PROVE FALSE
        BY <3>2
      <4>1. Past(d)
        BY <1>2, <3>2 DEF Past
      <4>2. Place(path, Children, f) < Place(path, Children, d)
        BY <1>1, <2>2, <3>1, <4>1, PlaceStrict
      <4> QED BY <1>1, <1>2, <1>p, <2>5, <3>2, <4>2
    <3>3. Place(path, Children, f) > stream.off
      BY <1>2, <2>5
    <3> HIDE DEF S
    <3>4. Place(path, S, f) > stream.off
      BY <1>1, <2>2, <3>1, <3>2, <3>3, PlaceDrop
    <3> QED BY <1>2, <3>4
  <2>6. NextOffset(S) \in Nat /\ NextOffset(S) <= stream.off + BufSize
    BY <1>1, <2>4 DEF NextOffset
  <2>a. steady' \subseteq steady /\ steady' \subseteq S
    BY <1>0, <2>1
  <2> HIDE DEF S
  <2>7. ASSUME NEW f \in steady', Index(Children, f) <= NextOffset(S)
        PROVE  f \in stream.seen \cup shown
    <3>1. CASE Index(Children, f) <= stream.off
      BY <1>0, <2>a, <3>1
    <3>2. CASE Index(Children, f) > stream.off
      <4>1. Index(S, f) > stream.off /\ Index(S, f) <= stream.off + BufSize
        BY <1>1, <1>p, <2>4, <2>5, <2>6, <2>7, <3>2
      <4> QED BY <1>1, <2>4, <2>a, <4>1
    <3> QED BY <1>1, <1>p, <3>1, <3>2
  <2>8. ASSUME ~ (stream.off < Entries(S)) PROVE steady' \subseteq stream.seen
    <3> SUFFICES ASSUME NEW f \in steady' PROVE f \in stream.seen
      OBVIOUS
    <3>1. ~ (Index(S, f) > stream.off)
      BY <1>1, <2>4, <2>8
    <3>2. Index(Children, f) <= stream.off
      BY <1>1, <1>p, <2>5, <3>1
    <3> QED BY <1>0, <2>a, <3>2
  <2>9. /\ stream'.off = NextOffset(S) /\ stream'.seen = stream.seen \cup shown
        /\ stream'.open = (stream.off < Entries(S))
    BY <2>1
  <2> HIDE DEF shown
  <2> QED BY <1>0, <2>2, <2>3, <2>7, <2>8, <2>9, <2>a DEF ListingInv, ListingComplete
<1>7. ASSUME Remount PROVE ListingInv'
  BY <1>7 DEF Remount, ListingInv, ListingComplete
<1>8. ASSUME rows' = rows, UNCHANGED <<path, stream, steady>> PROVE ListingInv'
  <2>1. Children' = Children
    BY <1>8 DEF Children
  <2> QED BY <1>3, <1>8, <2>1
<1>9. ASSUME NEW f \in Files, SyncUpsert(f) PROVE ListingInv'
  <2>1. cloud[f] \in Nat \ {0} /\ rows \in Table(Files)
    BY <1>0, <1>9 DEF SyncUpsert, TypeOK
  <2>2. Children \subseteq Children' /\ stream' = stream
    BY <1>9, <2>1, RowsStay DEF SyncUpsert, Children
  <2>3. /\ path' = [path EXCEPT ![f] = name[f]]
        /\ steady' = {g \in steady : /\ g = f => path'[f] = path[f]
                                     /\ Past(f) /\ Before(f, g) => Before(f, g)'}
    BY <1>9 DEF SyncUpsert
  <2>4. \A g, h \in Files : g # f /\ h # f => (Bef(path', g, h) <=> Bef(path, g, h))
    BY <1>1, <2>3 DEF Bef
  <2>5. ASSUME NEW g \in steady', Index(Children, g)' <= stream.off PROVE g \in stream.seen
    <3>0. g \in steady /\ g \in Children /\ g \in Files
      BY <1>0, <1>1, <2>3
    <3>1. CASE path' = path \/ g = f
      <4>1. path' = path
        BY <1>1, <2>3, <3>1
      <4>2. UpTo(path, Children, g) \subseteq UpTo(path', Children', g)
        BY <2>2, <4>1 DEF UpTo
      <4>3. Index(Children, g) <= Index(Children, g)'
        BY <1>1, <1>2, <4>2, PlaceUp
      <4> QED BY <1>0, <1>1, <1>p, <2>5, <3>0, <4>3
    <3>2. CASE g # f /\ (f \in Children /\ Bef(path, f, g) => Bef(path', f, g))
      <4>1. UpTo(path, Children, g) \subseteq UpTo(path', Children', g)
        BY <1>1, <2>2, <2>4, <3>0, <3>2 DEF UpTo
      <4>2. Index(Children, g) <= Index(Children, g)'
        BY <1>1, <1>2, <4>1, PlaceUp
      <4> QED BY <1>0, <1>1, <1>p, <2>5, <3>0, <4>2
    <3>3. CASE g # f /\ f \in Children /\ Bef(path, f, g) /\ ~ Bef(path', f, g)
      <4>1. Index(Children, f) > stream.off
        BY <1>1, <1>2, <1>p, <2>3, <3>3 DEF Past
      <4>2. UpTo(path, Children \ {f}, g) \subseteq UpTo(path', Children', g)
        BY <1>1, <2>2, <2>4, <3>0, <3>3 DEF UpTo
      <4>3. Place(path, Children \ {f}, g) <= Index(Children, g)'
        <5>1. Children \ {f} \in SUBSET Files
          BY <1>1
        <5>2. Place(path, Children \ {f}, g) <= Place(path', Children', g)
          BY <1>1, <4>2, <5>1, PlaceUp
        <5> QED BY <1>2, <5>2
      <4>4. Index(Children, f) <= Place(path, Children \ {f}, g)
        BY <1>1, <1>2, <3>0, <3>3, PlaceRemove
      <4>5. Place(path, Children \ {f}, g) \in Nat
        BY <1>1, PlaceType
      <4> QED BY <1>1, <1>p, <2>5, <4>1, <4>3, <4>4, <4>5
    <3> QED BY <3>1, <3>2, <3>3
  <2>6. steady' \subseteq steady /\ steady' \subseteq Children'
    BY <1>0, <2>2, <2>3
  <2> QED BY <1>0, <2>2, <2>5, <2>6 DEF ListingInv, ListingComplete
<1>10. ASSUME NEW k \in known, NEW g \in Files, OpenMissing(k[1], k[2], g) PROVE ListingInv'
  <2>1. rows \in Table(Files) /\ "Syncing" \in FileState
    BY <1>0 DEF TypeOK, FileState
  <2>2. Children \subseteq Children'
    BY <1>10, <2>1, RowsStay DEF OpenMissing, Children
  <2> QED BY <1>3, <1>10, <2>2 DEF OpenMissing
<1>11. ASSUME DownloadDone PROVE ListingInv'
  <2>1. downloading \in Files /\ rows \in Table(Files) /\ "Synced" \in FileState
    BY <1>0, <1>11 DEF TypeOK, DownloadDone, FileState
  <2>2. update_file_state(rows, downloading, "Synced") \in Table(Files)
    BY <2>1, TableOps
  <2>3. Children \subseteq Children'
    BY <1>11, <2>1, <2>2, RowsStay DEF DownloadDone, Children
  <2> QED BY <1>3, <1>11, <2>3 DEF DownloadDone
<1>12. ASSUME DownloadFails PROVE ListingInv'
  <2>1. downloading \in Files /\ rows \in Table(Files) /\ "Error" \in FileState
    BY <1>0, <1>12 DEF TypeOK, DownloadFails, FileState
  <2>2. rows' = rows \/ rows' = update_file_state(rows, downloading, "Error")
    BY <1>12 DEF DownloadFails
  <2>3. \A g \in Files : HasRow(rows, g) => HasRow(rows', g)
    BY <2>1, <2>2, RowsStay
  <2>4. Children \subseteq Children'
    BY <2>3 DEF Children
  <2> QED BY <1>3, <1>12, <2>4 DEF DownloadFails
<1> QED
  BY <1>4, <1>5, <1>6, <1>7, <1>8, <1>9, <1>10, <1>11, <1>12
     DEF Next, CloudPut, CloudDelete, Lookup, LookupFails, OpenCached, Opened, Release

\* For any files, paths and size of the replies: a listing shows every file that kept its
\* row and its path and got an inode each time, but for those behind a file that it was
\* past and that was deleted, renamed to a place behind them, or left out of a reply.
THEOREM ListingSafety == Spec => []ListingComplete
<1>1. Init => ListingInv
  BY InitHandleInv DEF Init, HandleInv, ListingInv, ListingComplete
<1>2. HandleInv /\ ListingInv /\ [Next]_vars => HandleInv' /\ ListingInv'
  <2>1. HandleInv' => TypeOK'
    BY DEF HandleInv
  <2> QED BY <2>1, HandleStep, ListingStep
<1>3. ListingInv => ListingComplete
  BY DEF ListingInv
<1> QED BY <1>1, <1>2, <1>3, InitHandleInv, PTL DEF Spec
=============================================================================
