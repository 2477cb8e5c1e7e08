------------------------ MODULE MetadataSync_proofs ------------------------
(***************************************************************************)
(* Proofs about MetadataSync, for every set of files and every value of    *)
(* the bounds: IInv is inductive, and what follows from it.                *)
(***************************************************************************)
EXTENDS MetadataSync, TLAPS

\* The closures on the files table keep its type.
LEMMA TableOps ==
    ASSUME NEW S, NEW r \in Table(S), NEW f \in S, NEW v \in Nat \ {0}
    PROVE  /\ upsert_cloud_item(r, f, v) \in Table(S)
           /\ delete_if_present(r, f) \in Table(S)
  BY DEF Table, Row, NoRow, FileState, HasRow, upsert_cloud_item, create_file,
         update_file, delete_file, delete_if_present, cloud_item_to_db_file

\* What an upsert leaves in the table: version v for f, all else as before.
LEMMA UpsertEffect ==
    ASSUME NEW S, NEW r \in Table(S), NEW f \in S, NEW v \in Nat \ {0},
           NEW u, u = upsert_cloud_item(r, f, v)
    PROVE  /\ u[f] # NoRow /\ u[f].ver = v
           /\ \A g \in S \ {f} : u[g] = r[g]
  BY DEF Table, Row, NoRow, HasRow, upsert_cloud_item, create_file,
         update_file, cloud_item_to_db_file

\* What a deletion leaves in the table: no row for f, all else as before.
LEMMA DeleteEffect ==
    ASSUME NEW S, NEW r \in Table(S), NEW f \in S,
           NEW u, u = delete_if_present(r, f)
    PROVE  /\ u[f] = NoRow
           /\ \A g \in S \ {f} : u[g] = r[g]
  BY DEF Table, Row, NoRow, HasRow, delete_if_present, delete_file

\* The log is append-only: a new change leaves the older ones in place.
LEMMA AppendEffect ==
    ASSUME NEW s \in Seq(Change), NEW c \in Change
    PROVE  /\ Append(s, c) \in Seq(Change)
           /\ Len(Append(s, c)) = Len(s) + 1
           /\ \A i \in 1 .. Len(s) : Append(s, c)[i] = s[i]
           /\ Append(s, c)[Len(s) + 1] = c
  OBVIOUS

\* An entry of the log names a file and a kind of change.
LEMMA LogEntry ==
    ASSUME NEW s \in Seq(Change), NEW i \in 1 .. Len(s)
    PROVE  /\ s[i] \in Change
           /\ s[i].file \in Files
           /\ s[i].kind \in {"item", "gone", "bare"}
<1>1. s[i] \in Change
  OBVIOUS
<1> QED BY <1>1 DEF Change

\* A change stays reflected when its file's row moves to a version not older
\* than it, or when another file's row is written.
LEMMA ReflectedUpsert ==
    ASSUME TypeOK, NEW f \in Files, NEW v \in Nat \ {0},
           rows' = upsert_cloud_item(rows, f, v), log' = log,
           NEW i \in 1 .. Len(log),
           log[i].file = f => i <= v,
           Reflected(i) \/ log[i].file = f
    PROVE  Reflected(i)'
<1>1. rows \in Table(Files) /\ log[i].file \in Files
  BY LogEntry DEF TypeOK
<1>2. rows'[f] # NoRow /\ rows'[f].ver = v /\ \A g \in Files \ {f} : rows'[g] = rows[g]
  BY <1>1, UpsertEffect
<1>3. CASE log[i].file = f
  BY <1>2, <1>3 DEF Reflected, HasRow
<1>4. CASE log[i].file # f
  BY <1>1, <1>2, <1>4 DEF Reflected, HasRow
<1> QED BY <1>3, <1>4

\* A change stays reflected when a deletion not older than it is applied, or
\* when another file's row is deleted.
LEMMA ReflectedDelete ==
    ASSUME TypeOK, NEW j \in 1 .. Len(log), log[j].kind = "gone",
           rows' = delete_if_present(rows, log[j].file), log' = log,
           NEW i \in 1 .. j,
           Reflected(i) \/ log[i].file = log[j].file
    PROVE  Reflected(i)'
<1>1. rows \in Table(Files) /\ log[i].file \in Files /\ log[j].file \in Files
  BY LogEntry DEF TypeOK
<1>2. rows'[log[j].file] = NoRow /\ \A g \in Files \ {log[j].file} : rows'[g] = rows[g]
  BY <1>1, DeleteEffect
<1>3. CASE log[i].file = log[j].file
  BY <1>2, <1>3 DEF Reflected, HasRow
<1>4. CASE log[i].file # log[j].file
  BY <1>1, <1>2, <1>4 DEF Reflected, HasRow
<1> QED BY <1>3, <1>4

\* A change stays reflected when the log grows.
LEMMA ReflectedAppend ==
    ASSUME TypeOK, NEW c \in Change, log' = Append(log, c), rows' = rows,
           NEW i \in 1 .. Len(log), Reflected(i)
    PROVE  Reflected(i)'
<1>1. /\ Len(log') = Len(log) + 1
      /\ \A k \in 1 .. Len(log) : log'[k] = log[k]
  BY AppendEffect DEF TypeOK
<1>2. i .. Len(log) \subseteq i .. Len(log') /\ i .. Len(log) \subseteq 1 .. Len(log)
  BY <1>1 DEF TypeOK
<1> QED BY <1>1, <1>2 DEF Reflected, HasRow

-----------------------------------------------------------------------------
\* The initial state satisfies the inductive invariant.
LEMMA InitIInv == Init => IInv
<1> SUFFICES ASSUME Init PROVE IInv
  OBVIOUS
<1>1. TypeOK
  <2>1. rows \in Table(Files)
    BY DEF Init, Table
  <2>2. pc \in Running \cup {"down"}
    BY DEF Init
  <2>3. log \in Seq(Change) /\ cloud \in [Files -> Nat] /\ listing \in SUBSET (Files \X (Nat \ {0}))
    BY DEF Init
  <2> QED BY <2>1, <2>2, <2>3 DEF Init, TypeOK
<1>2. Len(log) = 0 /\ cursor = NoCursor /\ pc = "down"
  BY DEF Init
<1> QED
  BY <1>1, <1>2 DEF Init, IInv, CloudIsLog, CursorInLog, PageInLog, FrontierApplied,
     ListingStored, ListingInLog, ListingIsLatest, ListingPending

\* Any change of the cloud: the log grows by c, and the cloud keeps up with it.
LEMMA CloudStep ==
    ASSUME IInv, NEW f \in Files, CloudPut(f) \/ CloudDelete(f) \/ CloudTouch(f)
    PROVE  IInv'
<1> DEFINE n == Len(log) + 1
<1>0. TypeOK /\ n \in Nat \ {0} /\ log \in Seq(Change)
  BY DEF IInv, TypeOK
<1>1. PICK k \in {"item", "gone", "bare"} : log' = Append(log, [file |-> f, kind |-> k])
  BY DEF CloudPut, CloudDelete, CloudTouch, AppendChange
<1> DEFINE c == [file |-> f, kind |-> k]
<1>2. c \in Change
  BY DEF Change
<1>3. /\ log' \in Seq(Change) /\ Len(log') = n /\ log'[n] = c
      /\ \A i \in 1 .. Len(log) : log'[i] = log[i]
  BY <1>0, <1>1, <1>2, AppendEffect
<1>4. UNCHANGED <<rows, cursor, pc, stop, locals, faults, starts, history>>
  BY DEF CloudPut, CloudDelete, CloudTouch
<1>5. TypeOK'
  <2>1. cloud' \in [Files -> Nat]
    BY <1>0 DEF TypeOK, CloudPut, CloudDelete, CloudTouch
  <2> QED BY <1>0, <1>3, <1>4, <2>1 DEF TypeOK, locals, history
<1>6. \A i \in 1 .. Len(log) : Reflected(i) => Reflected(i)'
  BY <1>0, <1>1, <1>2, <1>4, ReflectedAppend
<1>7. \A i \in 1 .. Len(log) : Relevant(i)' = Relevant(i)
  BY <1>3 DEF Relevant
<1>8. \A l \in 0 .. Len(log) : \A i \in 1 .. l : Listable(log', i, l) <=> Listable(log, i, l)
  <2> TAKE l \in 0 .. Len(log)
  <2> TAKE i \in 1 .. l
  <2>1. log'[i] = log[i] /\ \A j \in i + 1 .. l : log'[j] = log[j]
    BY <1>0, <1>3
  <2> QED BY <2>1 DEF Listable
<1>9. CloudIsLog'
  <2>0. /\ cloud \in [Files -> Nat] /\ Len(log) \in Nat
        /\ \A g \in Files : cloud[g] <= Len(log)
    BY <1>0 DEF IInv, TypeOK, CloudIsLog
  <2>a. \/ cloud' = cloud
        \/ \E v \in {0, n} : cloud' = [cloud EXCEPT ![f] = v]
    BY DEF CloudPut, CloudDelete, CloudTouch
  <2>1. \A g \in Files : cloud'[g] <= Len(log')
    <3>1. n = Len(log) + 1 /\ Len(log') = n
      BY <1>3
    <3> HIDE DEF n
    <3> QED BY <2>0, <2>a, <3>1
  <2>2. ASSUME NEW i \in 1 .. Len(log'), log'[i].kind # "bare", cloud'[log'[i].file] # 0
        PROVE  i <= cloud'[log'[i].file]
    <3>1. CASE i = n
      <4>1. CloudPut(f) /\ log'[i].file = f
        BY <1>0, <1>3, <3>1, <2>2 DEF CloudPut, CloudDelete, CloudTouch, AppendChange, IInv, TypeOK
      <4> QED BY <1>0, <3>1, <4>1 DEF CloudPut, IInv, TypeOK
    <3>2. CASE i # n
      <4>1. i \in 1 .. Len(log) /\ log'[i] = log[i] /\ log[i].file \in Files
        BY <1>0, <1>3, <3>2, LogEntry
      <4>2. CASE log[i].file = f
        <5>1. CASE CloudPut(f)
          BY <1>0, <4>1, <4>2, <5>1 DEF CloudPut, IInv, TypeOK
        <5>2. CASE CloudDelete(f)
          BY <1>0, <2>2, <4>1, <4>2, <5>2 DEF CloudDelete, IInv, TypeOK
        <5>3. CASE CloudTouch(f)
          BY <1>0, <2>2, <4>1, <5>3 DEF CloudTouch, IInv, CloudIsLog
        <5> QED BY <5>1, <5>2, <5>3
      <4>3. CASE log[i].file # f
        <5>1. cloud'[log[i].file] = cloud[log[i].file]
          BY <1>0, <4>1, <4>3 DEF CloudPut, CloudDelete, CloudTouch, TypeOK
        <5> QED BY <1>0, <2>2, <4>1, <5>1 DEF IInv, CloudIsLog
      <4> QED BY <4>2, <4>3
    <3> QED BY <3>1, <3>2
  <2>3. ASSUME NEW i \in 1 .. Len(log'), Listable(log', i, Len(log'))
        PROVE  i <= cloud'[log'[i].file]
    <3>1. CASE i = n
      <4>1. CloudPut(f) /\ log'[i].file = f
        BY <1>0, <1>3, <3>1, <2>3 DEF Listable, CloudPut, CloudDelete, CloudTouch,
           AppendChange, IInv, TypeOK
      <4> QED BY <1>0, <3>1, <4>1 DEF CloudPut, IInv, TypeOK
    <3>2. CASE i # n
      <4>1. i \in 1 .. Len(log) /\ log'[i] = log[i] /\ log[i].file \in Files
        BY <1>0, <1>3, <3>2, LogEntry
      <4>2. Listable(log', i, Len(log))
        BY <1>0, <1>3, <2>3, <4>1 DEF Listable
      <4>3. i <= cloud[log[i].file]
        BY <1>0, <1>8, <4>1, <4>2 DEF IInv, CloudIsLog
      <4>4. ~ (CloudDelete(f) /\ log[i].file = f)
        BY <1>0, <1>3, <2>3, <4>1 DEF Listable, CloudDelete, AppendChange
      <4> QED BY <1>0, <4>1, <4>3, <4>4 DEF CloudPut, CloudDelete, CloudTouch, IInv, TypeOK
    <3> QED BY <3>1, <3>2
  <2> QED BY <2>1, <2>2, <2>3 DEF CloudIsLog
<1>10. CursorInLog' /\ PageInLog' /\ ListingInLog'
  BY <1>0, <1>3, <1>4 DEF IInv, TypeOK, CursorInLog, PageInLog, ListingInLog, locals, history
<1>11. FrontierApplied'
  <2> SUFFICES ASSUME cursor # NoCursor, NEW i \in base + 1 .. Frontier, Relevant(i)'
               PROVE  Reflected(i)'
    BY <1>4 DEF FrontierApplied, Frontier, locals, history
  <2>1. i \in 1 .. Len(log)
    BY <1>0 DEF IInv, TypeOK, CursorInLog, PageInLog, Frontier, NoCursor
  <2> QED BY <1>6, <1>7, <2>1 DEF IInv, FrontierApplied
<1>12. ListingStored'
  <2> SUFFICES ASSUME cursor # NoCursor, NEW i \in 1 .. listed, Listable(log', i, listed)
               PROVE  Reflected(i)'
    BY <1>4 DEF ListingStored, history
  <2>1. listed \in 0 .. Len(log) /\ i \in 1 .. Len(log)
    BY <1>0 DEF IInv, TypeOK, CursorInLog, NoCursor
  <2> QED BY <1>6, <1>8, <2>1 DEF IInv, ListingStored
<1>13. ListingIsLatest'
  <2> SUFFICES ASSUME pc = "store", NEW it \in listing, NEW i \in 1 .. listedAt,
                      log'[i].file = it[1], log'[i].kind # "bare"
               PROVE  i <= it[2]
    BY <1>4 DEF ListingIsLatest, locals, history
  <2>1. listedAt \in Nat /\ listedAt <= Len(log) /\ Len(log) \in Nat
    BY <1>0 DEF IInv, TypeOK, ListingInLog
  <2>2. log'[i] = log[i]
    BY <1>3, <2>1
  <2> QED BY <2>2 DEF IInv, ListingIsLatest
<1>14. ListingPending'
  <2> SUFFICES ASSUME pc \in {"store", "token", "saveToken"},
                      NEW i \in 1 .. listedAt, Listable(log', i, listedAt)
               PROVE  Reflected(i)' \/ \E it \in listing : it[1] = log'[i].file
    BY <1>4 DEF ListingPending, locals, history
  <2>1. listedAt \in 0 .. Len(log) /\ i \in 1 .. Len(log) /\ log'[i] = log[i]
    BY <1>0, <1>3 DEF IInv, TypeOK, ListingInLog
  <2> QED BY <1>6, <1>8, <2>1 DEF IInv, ListingPending
<1> QED BY <1>5, <1>9, <1>10, <1>11, <1>12, <1>13, <1>14 DEF IInv

\* A step of the thread that writes neither the log nor the table leaves the
\* changes as reflected as they were.
LEMMA ReflectedSame ==
    ASSUME rows' = rows, log' = log, NEW i
    PROVE  /\ Reflected(i)' <=> Reflected(i)
           /\ Relevant(i)' <=> Relevant(i)
  BY DEF Reflected, HasRow, Relevant

\* Start, GetToken, Wake, Exit, ReadCursor, Stop, Crash and Fail write neither
\* the log, the table nor the cursor.
LEMMA QuietStep ==
    ASSUME IInv,
           Start \/ GetToken \/ Wake \/ Exit \/ ReadCursor \/ Stop \/ Crash \/ Fail
    PROVE  IInv'
<1> USE DEF ForgetLocals, cloudVars, locals, history
<1>0. TypeOK
  BY DEF IInv
<1>1. UNCHANGED <<cloud, log, rows, cursor, listed, base>>
  BY DEF Start, GetToken, Wake, Exit, ReadCursor, Stop, Crash, Fail
<1>2. TypeOK'
  <2>1. pc' \in Running \cup {"down"}
    BY <1>0 DEF TypeOK, Running, Busy, Start, GetToken, Wake, Exit, ReadCursor, Stop, Crash, Fail
  <2>2. token' \in Nat
    BY <1>0 DEF TypeOK, StartPageToken, Start, GetToken, Wake, Exit, ReadCursor, Stop, Crash, Fail
  <2>3. /\ pos' \in Nat /\ pageEnd' \in Nat
        /\ faults' \in Nat /\ starts' \in Nat /\ listedAt' \in Nat
    BY <1>0 DEF TypeOK, Start, GetToken, Wake, Exit, ReadCursor, Stop, Crash, Fail
  <2>4. listing' = listing \/ listing' = {}
    BY DEF Start, GetToken, Wake, Exit, ReadCursor, Stop, Crash, Fail
  <2>5. stop' \in BOOLEAN /\ hasMore' \in BOOLEAN
    BY <1>0, Zenon DEF TypeOK, Start, GetToken, Wake, Exit, ReadCursor, Stop, Crash, Fail
  <2> QED BY <1>0, <1>1, <2>1, <2>2, <2>3, <2>4, <2>5 DEF TypeOK
<1>3. CloudIsLog' /\ CursorInLog'
  BY <1>1 DEF IInv, CloudIsLog, CursorInLog
<1>4. PageInLog' /\ ListingInLog'
  BY <1>0, <1>1 DEF IInv, TypeOK, PageInLog, ListingInLog, StartPageToken,
     Start, GetToken, Wake, Exit, ReadCursor, Stop, Crash, Fail
<1>5. FrontierApplied'
  <2>1. cursor # NoCursor => Frontier' <= Frontier /\ Frontier' \in Int /\ Frontier \in Int
    BY <1>0, <1>1 DEF IInv, TypeOK, PageInLog, Frontier, NoCursor,
       Start, GetToken, Wake, Exit, ReadCursor, Stop, Crash, Fail
  <2>2. base' = base /\ base \in Nat /\ cursor' = cursor
    BY <1>0, <1>1 DEF TypeOK
  <2> SUFFICES ASSUME cursor # NoCursor, NEW i \in base + 1 .. Frontier', Relevant(i)'
               PROVE  Reflected(i)'
    BY <2>2 DEF FrontierApplied
  <2>3. i \in base + 1 .. Frontier
    BY <2>1, <2>2
  <2>4. Relevant(i) => Reflected(i)
    BY <2>3 DEF IInv, FrontierApplied
  <2> QED BY <1>1, <2>4, ReflectedSame
<1>6. ListingStored'
  BY <1>1, ReflectedSame DEF IInv, ListingStored
<1>7. ListingIsLatest' /\ ListingPending'
  <2>1. pc' \in {"store", "token", "saveToken"} =>
          /\ pc \in {"store", "token", "saveToken"}
          /\ listing' = listing /\ listedAt' = listedAt
          /\ pc' = "store" => pc = "store"
    BY DEF Start, GetToken, Wake, Exit, ReadCursor, Stop, Crash, Fail
  <2>2. ListingIsLatest'
    BY <1>1, <2>1 DEF IInv, ListingIsLatest
  <2>3. ListingPending'
    BY <1>1, <2>1, ReflectedSame DEF IInv, ListingPending
  <2> QED BY <2>2, <2>3
<1> QED BY <1>2, <1>3, <1>4, <1>5, <1>6, <1>7 DEF IInv

\* The listing is taken: it has the latest version of everything listable.
LEMMA ListStep == ASSUME IInv, List PROVE IInv'
<1> USE DEF cloudVars, locals, history
<1>0. TypeOK /\ Len(log) \in Nat
  BY DEF IInv, TypeOK
<1>1. UNCHANGED <<cloud, log, rows, cursor, listed, base, token, pos, pageEnd, hasMore, stop,
                  faults, starts>>
  BY DEF List
<1>2. pc = "list" /\ listing' = ListFolder /\ listedAt' = Len(log)
  BY DEF List
<1>3. pc' \in {"token", "store"} /\ (pc' = "token" => listing' = {})
  BY DEF List
<1>4. TypeOK'
  <2>1. ListFolder \in SUBSET (Files \X (Nat \ {0}))
    BY <1>0, ConstantsAssumption DEF TypeOK, ListFolder
  <2> QED BY <1>0, <1>1, <1>2, <1>3, <2>1 DEF TypeOK, Running, Busy
<1>5. CloudIsLog' /\ CursorInLog' /\ PageInLog' /\ ListingInLog'
  BY <1>0, <1>1, <1>2, <1>3 DEF IInv, TypeOK, CloudIsLog, CursorInLog, PageInLog, ListingInLog
<1>6. FrontierApplied'
  <2>1. Frontier' = Frontier
    BY <1>1, <1>2, <1>3 DEF Frontier
  <2> QED BY <1>1, <2>1, ReflectedSame DEF IInv, FrontierApplied
<1>7. ListingStored'
  BY <1>1, ReflectedSame DEF IInv, ListingStored
<1>8. ListingIsLatest'
  <2> SUFFICES ASSUME NEW it \in ListFolder, NEW i \in 1 .. Len(log),
                      log[i].file = it[1], log[i].kind # "bare"
               PROVE  i <= it[2]
    BY <1>1, <1>2 DEF ListingIsLatest
  <2>1. it[2] = cloud[it[1]] /\ cloud[it[1]] # 0
    BY DEF ListFolder
  <2> QED BY <2>1 DEF IInv, CloudIsLog
<1>9. ListingPending'
  <2> SUFFICES ASSUME NEW i \in 1 .. Len(log), Listable(log, i, Len(log))
               PROVE  \E it \in ListFolder : it[1] = log[i].file
    BY <1>1, <1>2 DEF ListingPending
  <2>1. i <= cloud[log[i].file] /\ log[i].file \in RootFiles \ Malformed
    BY DEF IInv, CloudIsLog, Listable
  <2>2. log[i].file \in Files /\ cloud[log[i].file] # 0
    BY <1>0, <2>1, LogEntry DEF TypeOK
  <2>3. <<log[i].file, cloud[log[i].file]>> \in ListFolder
    BY <2>1, <2>2 DEF ListFolder
  <2> QED BY <2>3
<1> QED BY <1>4, <1>5, <1>6, <1>7, <1>8, <1>9 DEF IInv

\* An item of the listing is stored: its row gets a version that is not older
\* than any change of the file up to the listing, hence up to the cursor.
LEMMA StoreStep == ASSUME IInv, StoreItem PROVE IInv'
<1> USE DEF cloudVars, locals, history
<1>0. TypeOK /\ Len(log) \in Nat
  BY DEF IInv, TypeOK
<1>1. UNCHANGED <<cloud, log, cursor, listed, base, token, pos, pageEnd, hasMore, stop,
                  faults, starts, listedAt>>
  BY DEF StoreItem
<1>2. PICK it \in listing : rows' = upsert_cloud_item(rows, it[1], it[2])
                             /\ listing' = listing \ {it}
  BY DEF StoreItem
<1>3. pc = "store" /\ pc' \in {"token", "store"} /\ (pc' = "token" => listing' = {})
  BY DEF StoreItem
<1>4. it[1] \in Files /\ it[2] \in Nat \ {0}
  BY <1>0 DEF TypeOK
<1>5. TypeOK'
  <2>1. rows' \in Table(Files)
    BY <1>0, <1>2, <1>4, TableOps DEF TypeOK
  <2> QED BY <1>0, <1>1, <1>2, <1>3, <2>1 DEF TypeOK, Running, Busy
<1>6. CloudIsLog' /\ CursorInLog' /\ PageInLog' /\ ListingInLog'
  BY <1>0, <1>1, <1>2, <1>3 DEF IInv, TypeOK, CloudIsLog, CursorInLog, PageInLog, ListingInLog
<1>7. ASSUME NEW i \in 1 .. listedAt, log[i].kind # "bare",
             Reflected(i) \/ log[i].file = it[1]
      PROVE  Reflected(i)'
  <2>1. i \in 1 .. Len(log) /\ (log[i].file = it[1] => i <= it[2])
    BY <1>0, <1>3, <1>7 DEF IInv, TypeOK, ListingInLog, ListingIsLatest
  <2> QED BY <1>0, <1>1, <1>2, <1>4, <1>7, <2>1, ReflectedUpsert
<1>8. FrontierApplied'
  <2> SUFFICES ASSUME cursor # NoCursor, NEW i \in base + 1 .. cursor, Relevant(i)
               PROVE  Reflected(i)'
    BY <1>1, <1>3 DEF FrontierApplied, Frontier, Relevant
  <2>1. i \in 1 .. listedAt /\ log[i].kind # "bare"
    BY <1>0, <1>3 DEF IInv, TypeOK, ListingInLog, NoCursor, Relevant
  <2>2. Reflected(i)
    BY <1>3 DEF IInv, FrontierApplied, Frontier
  <2> QED BY <1>7, <2>1, <2>2
<1>9. ListingStored'
  <2> SUFFICES ASSUME cursor # NoCursor, NEW i \in 1 .. listed, Listable(log, i, listed)
               PROVE  Reflected(i)'
    BY <1>1 DEF ListingStored
  <2>1. i \in 1 .. listedAt /\ log[i].kind # "bare"
    BY <1>0, <1>3 DEF IInv, TypeOK, ListingInLog, CursorInLog, NoCursor, Listable
  <2>2. Reflected(i)
    BY DEF IInv, ListingStored
  <2> QED BY <1>7, <2>1, <2>2
<1>10. ListingIsLatest'
  BY <1>1, <1>2, <1>3 DEF IInv, ListingIsLatest
<1>11. ListingPending'
  <2> SUFFICES ASSUME NEW i \in 1 .. listedAt, Listable(log, i, listedAt)
               PROVE  Reflected(i)' \/ \E jt \in listing' : jt[1] = log[i].file
    BY <1>1 DEF ListingPending
  <2>1. Reflected(i) \/ \E jt \in listing : jt[1] = log[i].file
    BY <1>3 DEF IInv, ListingPending
  <2>2. log[i].kind # "bare"
    BY DEF Listable
  <2> QED BY <1>2, <1>7, <2>1, <2>2
<1> QED BY <1>5, <1>6, <1>8, <1>9, <1>10, <1>11 DEF IInv

\* The start token becomes the cursor: the feed starts anew after it, and the
\* listing, stored in full, is the one the cursor came with.
LEMMA SaveTokenStep == ASSUME IInv, SaveToken PROVE IInv'
<1> USE DEF cloudVars, locals, history
<1>0. TypeOK /\ Len(log) \in Nat
  BY DEF IInv, TypeOK
<1>1. UNCHANGED <<cloud, log, rows, stop, faults, starts>>
  BY DEF SaveToken
<1>2. /\ pc = "saveToken" /\ pc' = "sleep"
      /\ cursor' = token /\ base' = token /\ listed' = listedAt
      /\ listing' = {} /\ token' = 0 /\ pos' = 0 /\ pageEnd' = 0 /\ listedAt' = 0
  BY DEF SaveToken, ForgetLocals
<1>3. TypeOK'
  <2>1. hasMore' \in BOOLEAN
    BY Zenon DEF SaveToken, ForgetLocals
  <2> QED BY <1>0, <1>1, <1>2, <2>1 DEF TypeOK, Running
<1>4. CloudIsLog' /\ CursorInLog' /\ PageInLog' /\ ListingInLog'
  BY <1>0, <1>1, <1>2 DEF IInv, TypeOK, CloudIsLog, CursorInLog, PageInLog, ListingInLog
<1>5. FrontierApplied'
  BY <1>0, <1>2 DEF FrontierApplied, Frontier, TypeOK
<1>6. ListingStored'
  <2> SUFFICES ASSUME NEW i \in 1 .. listedAt, Listable(log, i, listedAt)
               PROVE  Reflected(i)
    BY <1>1, <1>2, ReflectedSame DEF ListingStored
  <2> QED BY <1>2 DEF IInv, ListingPending, ListingInLog
<1>7. ListingIsLatest' /\ ListingPending'
  BY <1>2 DEF ListingIsLatest, ListingPending
<1> QED BY <1>3, <1>4, <1>5, <1>6, <1>7 DEF IInv

\* A page is fetched from the stored cursor.
LEMMA FetchStep == ASSUME IInv, Fetch PROVE IInv'
<1> USE DEF cloudVars, locals, history
<1>0. TypeOK /\ Len(log) \in Nat
  BY DEF IInv, TypeOK
<1>1. UNCHANGED <<cloud, log, rows, cursor, stop, listing, token, faults, starts,
                  listedAt, listed, base>>
  BY DEF Fetch
<1>2. /\ pc = "fetch" /\ pc' \in {"saveCursor", "apply"}
      /\ pos' = cursor + 1 /\ pageEnd' = PageEnd(cursor)
      /\ pc' = IF PageEnd(cursor) = cursor THEN "saveCursor" ELSE "apply"
  BY DEF Fetch
<1>3. cursor \in Nat /\ cursor <= Len(log)
  BY <1>0, <1>2 DEF IInv, TypeOK, PageInLog, CursorInLog, NoCursor
<1>4. PageEnd(cursor) \in cursor .. Len(log)
  BY <1>0, <1>3, ConstantsAssumption DEF PageEnd
<1>5. TypeOK'
  <2>1. hasMore' \in BOOLEAN
    BY DEF Fetch
  <2> QED BY <1>0, <1>1, <1>2, <1>3, <1>4, <2>1 DEF TypeOK, Running, Busy
<1>6. CloudIsLog' /\ CursorInLog' /\ PageInLog' /\ ListingInLog'
  BY <1>0, <1>1, <1>2, <1>3, <1>4 DEF IInv, TypeOK, CloudIsLog, CursorInLog, PageInLog,
     ListingInLog, NoCursor
<1>7. FrontierApplied'
  <2>1. Frontier' = cursor /\ Frontier = cursor
    BY <1>2, <1>3 DEF Frontier
  <2> QED BY <1>1, <2>1, ReflectedSame DEF IInv, FrontierApplied
<1>8. ListingStored'
  BY <1>1, ReflectedSame DEF IInv, ListingStored
<1>9. ListingIsLatest' /\ ListingPending'
  BY <1>2 DEF ListingIsLatest, ListingPending
<1> QED BY <1>5, <1>6, <1>7, <1>8, <1>9 DEF IInv

\* A change of the page is applied: the frontier moves over it, and every older
\* change of the same file is at least as well reflected as before.
LEMMA ApplyStep == ASSUME IInv, ApplyChange PROVE IInv'
<1> USE DEF cloudVars, locals, history
<1>0. TypeOK /\ Len(log) \in Nat
  BY DEF IInv, TypeOK
<1>1. UNCHANGED <<cloud, log, cursor, stop, listing, token, pageEnd, hasMore, faults, starts,
                  listedAt, listed, base>>
  BY DEF ApplyChange
<1>2. /\ pc = "apply" /\ pc' \in {"saveCursor", "apply"} /\ pos' = pos + 1
      /\ pc' = IF pos = pageEnd THEN "saveCursor" ELSE "apply"
      /\ rows' = apply_change(log[pos], pos)
  BY DEF ApplyChange
<1>3. cursor \in Nat /\ pos \in cursor + 1 .. pageEnd /\ pageEnd \in Nat /\ pageEnd <= Len(log)
  BY <1>0, <1>2 DEF IInv, TypeOK, PageInLog, CursorInLog, NoCursor
<1>4. pos \in 1 .. Len(log) /\ pos \in Nat \ {0}
  BY <1>0, <1>3
<1>5. /\ log[pos].file \in Files /\ log[pos].kind \in {"item", "gone", "bare"}
  BY <1>0, <1>4, LogEntry DEF TypeOK
<1>6. TypeOK'
  <2>1. rows' \in Table(Files)
    BY <1>0, <1>2, <1>4, <1>5, TableOps DEF TypeOK, apply_change
  <2> QED BY <1>0, <1>1, <1>2, <1>4, <2>1 DEF TypeOK, Running, Busy
<1>7. CloudIsLog' /\ CursorInLog' /\ PageInLog' /\ ListingInLog'
  BY <1>0, <1>1, <1>2, <1>3 DEF IInv, TypeOK, CloudIsLog, CursorInLog, PageInLog, ListingInLog
<1>8. ASSUME NEW i \in 1 .. pos,
             Reflected(i) \/ (i = pos /\ Relevant(i))
      PROVE  Reflected(i)'
  <2>0. i \in 1 .. Len(log)
    BY <1>0, <1>4
  <2>1. CASE log[pos].kind = "gone"
    BY <1>0, <1>1, <1>2, <1>4, <1>8, <2>1, ReflectedDelete DEF apply_change
  <2>2. CASE log[pos].kind = "item" /\ log[pos].file \notin Malformed
    <3>1. rows' = upsert_cloud_item(rows, log[pos].file, pos)
      BY <1>2, <2>2 DEF apply_change
    <3> QED BY <1>0, <1>1, <1>4, <1>5, <1>8, <2>0, <3>1, ReflectedUpsert
  <2>3. CASE ~ Relevant(pos)
    <3>1. rows' = rows
      BY <1>2, <2>3 DEF apply_change, Relevant
    <3> QED BY <1>1, <1>8, <2>3, <3>1, ReflectedSame
  <2> QED BY <2>1, <2>2, <2>3 DEF Relevant
<1>9. FrontierApplied'
  <2>1. Frontier' = pos /\ Frontier = pos - 1
    BY <1>2, <1>3 DEF Frontier
  <2> SUFFICES ASSUME NEW i \in base + 1 .. pos, Relevant(i)
               PROVE  Reflected(i)'
    BY <1>1, <2>1 DEF FrontierApplied, Relevant
  <2>2. i \in 1 .. pos /\ base \in Nat /\ cursor # NoCursor
    BY <1>0, <1>3 DEF TypeOK, NoCursor
  <2>3. CASE i = pos
    BY <1>8, <2>2, <2>3
  <2>4. CASE i # pos
    <3>1. i \in base + 1 .. Frontier
      BY <1>3, <2>1, <2>2, <2>4
    <3>2. Reflected(i)
      BY <2>2, <3>1 DEF IInv, FrontierApplied
    <3> QED BY <1>8, <2>2, <3>2
  <2> QED BY <2>3, <2>4
<1>10. ListingStored'
  <2> SUFFICES ASSUME NEW i \in 1 .. listed, Listable(log, i, listed)
               PROVE  Reflected(i)'
    BY <1>1 DEF ListingStored
  <2>1. i \in 1 .. pos /\ cursor # NoCursor
    BY <1>0, <1>3 DEF IInv, TypeOK, CursorInLog, NoCursor
  <2>2. Reflected(i)
    BY <2>1 DEF IInv, ListingStored
  <2> QED BY <1>8, <2>1, <2>2
<1>11. ListingIsLatest' /\ ListingPending'
  BY <1>2 DEF ListingIsLatest, ListingPending
<1> QED BY <1>6, <1>7, <1>9, <1>10, <1>11 DEF IInv

\* The page's cursor is stored: it catches up with the frontier.
LEMMA SaveCursorStep == ASSUME IInv, SaveCursor PROVE IInv'
<1> USE DEF cloudVars, locals, history
<1>0. TypeOK /\ Len(log) \in Nat
  BY DEF IInv, TypeOK
<1>1. UNCHANGED <<cloud, log, rows, stop, faults, starts, listed, base>>
  BY DEF SaveCursor
<1>2. pc = "saveCursor" /\ pc' \in {"fetch", "sleep"} /\ cursor' = pageEnd
  BY DEF SaveCursor
<1>3. /\ cursor \in Nat /\ cursor <= pageEnd /\ pageEnd \in Nat /\ pageEnd <= Len(log)
      /\ pos = pageEnd + 1
  BY <1>0, <1>2 DEF IInv, TypeOK, PageInLog, NoCursor
<1>4. TypeOK'
  <2>1. hasMore' \in BOOLEAN
    BY <1>0, Zenon DEF SaveCursor, ForgetLocals, TypeOK
  <2>2. /\ token' \in Nat /\ pos' \in Nat /\ pageEnd' \in Nat /\ listedAt' \in Nat
        /\ (listing' = listing \/ listing' = {})
    BY <1>0 DEF SaveCursor, ForgetLocals, TypeOK
  <2> QED BY <1>0, <1>1, <1>2, <1>3, <2>1, <2>2 DEF TypeOK, Running, Busy
<1>5. CloudIsLog' /\ CursorInLog' /\ PageInLog' /\ ListingInLog'
  BY <1>0, <1>1, <1>2, <1>3 DEF IInv, TypeOK, CloudIsLog, CursorInLog, PageInLog,
     ListingInLog, NoCursor
<1>6. FrontierApplied'
  <2>1. Frontier' = Frontier
    BY <1>2, <1>3 DEF Frontier
  <2>2. cursor # NoCursor
    BY <1>3 DEF NoCursor
  <2> QED BY <1>1, <2>1, <2>2, ReflectedSame DEF IInv, FrontierApplied
<1>7. ListingStored'
  <2>1. cursor # NoCursor
    BY <1>3 DEF NoCursor
  <2> QED BY <1>1, <2>1, ReflectedSame DEF IInv, ListingStored
<1>8. ListingIsLatest' /\ ListingPending'
  BY <1>2 DEF ListingIsLatest, ListingPending
<1> QED BY <1>4, <1>5, <1>6, <1>7, <1>8 DEF IInv

-----------------------------------------------------------------------------
\* A stuttering step changes nothing the invariant reads.
LEMMA StutterStep == ASSUME IInv, UNCHANGED vars PROVE IInv'
<1> USE DEF vars, cloudVars, locals, history
<1>1. TypeOK' /\ CloudIsLog' /\ CursorInLog' /\ PageInLog' /\ ListingInLog' /\ ListingIsLatest'
  BY DEF IInv, TypeOK, CloudIsLog, CursorInLog, PageInLog, ListingInLog, ListingIsLatest
<1>2. Frontier' = Frontier
  BY DEF Frontier
<1>3. FrontierApplied' /\ ListingStored' /\ ListingPending'
  BY <1>2, ReflectedSame DEF IInv, FrontierApplied, ListingStored, ListingPending
<1> QED BY <1>1, <1>3 DEF IInv

\* The inductive invariant: it holds initially and every action keeps it.
THEOREM Inductive == Spec => []IInv
<1>1. IInv /\ [Next]_vars => IInv'
  <2> SUFFICES ASSUME IInv, [Next]_vars PROVE IInv'
    OBVIOUS
  <2>1. CASE ThreadStep
    BY <2>1, ListStep, StoreStep, SaveTokenStep, FetchStep, ApplyStep, SaveCursorStep,
       QuietStep DEF ThreadStep
  <2>2. CASE Environment
    BY <2>2, CloudStep, QuietStep DEF Environment
  <2>3. CASE UNCHANGED vars
    BY <2>3, StutterStep
  <2> QED BY <2>1, <2>2, <2>3 DEF Next
<1> QED BY <1>1, InitIInv, PTL DEF Spec

\* Every reachable state is well typed.
THEOREM TypeCorrect == Spec => []TypeOK
<1>1. IInv => TypeOK
  BY DEF IInv
<1> QED BY <1>1, Inductive, PTL

\* The stored cursor never passes a change of the feed that is not in the
\* files table, whatever fails, crashes or is replayed.
THEOREM FeedSafety == Spec => []FeedApplied
<1>1. IInv => FeedApplied
  <2> SUFFICES ASSUME IInv, cursor # NoCursor, NEW i \in base + 1 .. cursor, Relevant(i)
               PROVE  Reflected(i)
    BY DEF FeedApplied
  <2>1. i \in base + 1 .. Frontier
    BY DEF IInv, TypeOK, PageInLog, Frontier, NoCursor
  <2> QED BY <2>1 DEF IInv, FrontierApplied
<1> QED BY <1>1, Inductive, PTL

\* What a complete initial_sync listed stays in the files table, at least as
\* recent as it was listed, until the feed says otherwise.
THEOREM ListingSafety == Spec => []ListingStored
<1>1. IInv => ListingStored
  BY DEF IInv
<1> QED BY <1>1, Inductive, PTL
=============================================================================
