------------------------ MODULE TokenStorage_proofs -------------------------
(***************************************************************************)
(* Proofs about TokenStorage, for any tasks and sets of scopes.  While     *)
(* nothing has happened that can bring an older token back (Steady), the   *)
(* cache and what can be retrieved have the newest token of every set of   *)
(* scopes (Newest), and so has a list on its way between the two.          *)
(***************************************************************************)
EXTENDS TokenStorage, WellFoundedInduction, TLAPS

USE ConstantsAssumption

-----------------------------------------------------------------------------
(* Lists.                                                                  *)

\* A set of numbers has a smallest one.
LEMMA MinIs ==
    ASSUME NEW S, S \subseteq Nat, S # {}
    PROVE  Min(S) \in S /\ \A y \in S : Min(S) <= y
<1> DEFINE R == {ss \in Nat \X Nat : ss[1] < ss[2]}
<1>1. IsWellFoundedOn(R, Nat)
  BY NatLessThanWellFounded DEF OpToRel
<1>2. PICK x \in S : \A y \in S : ~ (<<y, x>> \in R)
  <2> HIDE DEF R
  <2> QED BY <1>1, WFMin
<1>3. ASSUME NEW y \in S PROVE x <= y
  <2>1. x \in Nat /\ y \in Nat /\ <<y, x>> \in Nat \X Nat
    OBVIOUS
  <2>2. <<y, x>>[1] = y /\ <<y, x>>[2] = x
    OBVIOUS
  <2>3. ~ y < x
    BY <1>2, <2>1, <2>2
  <2> QED BY <2>1, <2>3
<1> QED BY <1>3 DEF Min

\* Match answers with a token of the list that covers the scopes, or with 0.
LEMMA MatchIs ==
    ASSUME issued \in Nat, NEW list, list \subseteq Entries, NEW s
    PROVE  /\ Match(list, s) \in 0..issued
           /\ (\E e \in list : Covers(e.scopes, s)) =>
                \E e \in list : Covers(e.scopes, s) /\ Match(list, s) = e.token
<1> DEFINE hits == {e \in list : Covers(e.scopes, s)}
           tokens == {e.token : e \in hits}
<1>1. CASE hits = {}
  BY <1>1 DEF Match
<1>2. CASE hits # {}
  <2>1. tokens # {} /\ tokens \subseteq 1..issued
    BY <1>2 DEF Entries
  <2>2. Match(list, s) = Min(tokens)
    BY <1>2 DEF Match
  <2> HIDE DEF tokens, hits
  <2>3. Min(tokens) \in tokens
    <3>1. tokens \subseteq Nat
      BY <2>1
    <3> QED BY <2>1, <3>1, MinIs
  <2>4. Match(list, s) \in 0..issued
    <3>1. Match(list, s) \in 1..issued
      BY <2>1, <2>2, <2>3
    <3> QED BY <3>1
  <2>5. \E e \in list : Covers(e.scopes, s) /\ Match(list, s) = e.token
    BY <2>2, <2>3 DEF tokens, hits
  <2> QED BY <2>4, <2>5
<1> QED BY <1>1, <1>2

\* In a list that is newest, Match finds nothing older than the last token stored.
LEMMA MatchNewest ==
    ASSUME issued \in Nat, latest \in [ScopeSets -> 0..issued],
           NEW list, list \subseteq Entries, Newest(list), NEW s \in ScopeSets
    PROVE  Match(list, s) >= latest[s]
<1>1. CASE latest[s] = 0
  BY <1>1, MatchIs
<1>2. CASE latest[s] # 0
  <2>1. \E e \in list : Covers(e.scopes, s)
    BY <1>2 DEF Newest, Covers
  <2> QED BY <1>2, <2>1, MatchIs DEF Newest
<1> QED BY <1>1, <1>2

\* An empty list is newest only if no set has stored anything.
LEMMA EmptyNewest ==
    ASSUME Newest({}), NEW s \in ScopeSets
    PROVE  latest[s] = 0
BY DEF Newest

-----------------------------------------------------------------------------
(* Types.                                                                  *)

\* The initial states satisfy the invariant.
LEMMA InitInv == Init => TokenInv
<1> SUFFICES ASSUME Init PROVE TokenInv
  OBVIOUS
<1>1. backend \in Backends
  BY DEF Init, Build, Backends, None
<1>2. up \in BOOLEAN /\ raced \in BOOLEAN /\ keyringFailed \in BOOLEAN /\ broken \in BOOLEAN
  BY Zenon DEF Init
<1>3. (CHOOSE s \in ScopeSets : TRUE) \in ScopeSets
  OBVIOUS
<1>4. TypeOK
  BY <1>1, <1>2, <1>3 DEF Init, TypeOK, Contents, Entries, Absent, Getting, Storing
<1>5. StoreInv
  BY DEF Init, StoreInv, Newest
<1>6. CacheInv
  BY DEF Init, CacheInv, Newest, Getting, Storing
<1> QED BY <1>4, <1>5, <1>6 DEF TokenInv

\* Steps that issue no token.
LEMMA QuietType ==
    ASSUME TypeOK, NEW t \in Tasks,
           \/ \E s \in ScopeSets : Call(t, s)
           \/ GetCached(t) \/ Retrieve(t) \/ RetrieveFile(t) \/ Refill(t) \/ Done(t) \/ Renew(t)
    PROVE  TypeOK'
<1>0. /\ keyring.list \subseteq Entries /\ file.list \subseteq Entries
      /\ issued' = issued => Entries' = Entries /\ Contents' = Contents
  <2>1. \A c \in Contents : c.list \subseteq Entries
    BY DEF Contents, Absent, Torn
  <2>2. issued' = issued => Entries' = Entries
    BY DEF Entries
  <2>3. issued' = issued => Contents' = Contents
    BY <2>2 DEF Contents
  <2> QED BY <2>1, <2>2, <2>3 DEF TypeOK
<1> USE <1>0 DEF TypeOK, Goto, Answer, Getting, Storing, store, hist, bounds
<1>1. ASSUME NEW s \in ScopeSets, Call(t, s) PROVE TypeOK'
  BY <1>1 DEF Call
<1>2. ASSUME GetCached(t) PROVE TypeOK'
  <2>1. Match(cache, want[t]) \in 0..issued
    BY MatchIs
  <2>2. CASE Match(cache, want[t]) = 0
    BY <1>2, <2>2 DEF GetCached
  <2>3. CASE Match(cache, want[t]) # 0
    BY <1>2, <2>1, <2>3 DEF GetCached
  <2> QED BY <2>2, <2>3
<1>3. ASSUME Retrieve(t) PROVE TypeOK'
  BY <1>3 DEF Retrieve
<1>4. ASSUME RetrieveFile(t) PROVE TypeOK'
  BY <1>4 DEF RetrieveFile
<1>5. ASSUME Refill(t) PROVE TypeOK'
  <2>1. Match(raw[t], want[t]) \in 0..issued
    BY MatchIs
  <2> QED BY <1>5, <2>1 DEF Refill
<1>6. ASSUME Done(t) \/ Renew(t) PROVE TypeOK'
  BY <1>6 DEF Done, Renew
<1> QED BY <1>1, <1>2, <1>3, <1>4, <1>5, <1>6

\* Steps of set.
LEMMA SetType ==
    ASSUME TypeOK, NEW t \in Tasks, SetBegin(t) \/ Store(t) \/ Truncate(t) \/ WriteFile(t)
    PROVE  TypeOK'
<1> USE DEF TypeOK, Getting, Storing
<1>1. ASSUME SetBegin(t) PROVE TypeOK'
  <2> DEFINE list == Keep(cache, want[t]) \cup {StoredToken(want[t], issued + 1)}
  <2>0. /\ pc[t] = "set" /\ lock = None /\ lock' = t /\ issued' = issued + 1
        /\ got' = [got EXCEPT ![t] = issued + 1]
        /\ cache' = list
        /\ raw' = [raw EXCEPT ![t] = list]
        /\ pc' = [pc EXCEPT ![t] = "store"]
        /\ UNCHANGED <<backend, keyring, up, file, want, keyringFailed, broken>>
    BY <1>1 DEF SetBegin, SetLocked, Goto, store
  <2>1. Entries \subseteq Entries' /\ Contents \subseteq Contents'
    BY <2>0 DEF Entries, Contents
  <2>2. StoredToken(want[t], issued + 1) \in Entries'
    BY <2>0 DEF StoredToken, Entries
  <2>3. list \subseteq Entries'
    BY <2>1, <2>2 DEF Keep
  <2> HIDE DEF list
  <2>4. latest' \in [ScopeSets -> 0..issued'] /\ floor' \in [Tasks -> 0..issued']
    BY <1>1, <2>0 DEF SetBegin, SetLocked
  <2>5. raced' \in BOOLEAN
    BY <1>1, Zenon DEF SetBegin, SetLocked
  <2>6. cache' \subseteq Entries' /\ raw' \in [Tasks -> SUBSET Entries']
    BY <2>0, <2>1, <2>3
  <2>7. keyring' \in Contents' /\ file' \in Contents'
    BY <2>0, <2>1
  <2> HIDE DEF Entries, Contents
  <2>8. got' \in [Tasks -> 0..issued']
    BY <2>0
  <2>9. \A u \in Tasks : (pc'[u] \in Storing <=> lock' = u) /\ (pc'[u] \in Storing => got'[u] = issued')
    BY <2>0
  <2> QED BY <2>0, <2>4, <2>5, <2>6, <2>7, <2>8, <2>9
<1>2. issued' = issued => Entries' = Entries /\ Contents' = Contents
  BY DEF Entries, Contents
<1>3. Absent \in Contents /\ Torn \in Contents /\ Stored(raw[t]) \in Contents
  BY DEF Absent, Torn, Stored, Contents, Entries
<1>4. ASSUME Store(t) PROVE TypeOK'
  <2>1. keyringFailed' \in BOOLEAN
    BY <1>4, Zenon DEF Store, TypeOK
  <2> QED BY <1>2, <1>3, <1>4, <2>1 DEF Store, SetEnds, Goto, bounds
<1>5. ASSUME Truncate(t) PROVE TypeOK'
  BY <1>2, <1>3, <1>5 DEF Truncate, SetEnds, Goto, bounds
<1>6. ASSUME WriteFile(t) PROVE TypeOK'
  <2>1. broken' \in BOOLEAN
    BY <1>6, Zenon DEF WriteFile, TypeOK
  <2> QED BY <1>2, <1>3, <1>6, <2>1 DEF WriteFile, SetEnds, Goto, bounds
<1> QED BY <1>1, <1>4, <1>5, <1>6

\* Every step keeps the types.
LEMMA NextType == ASSUME TypeOK, [Next]_vars PROVE TypeOK'
<1> USE DEF Entries, Contents, Getting, Storing
<1>1. CASE KeyringFlips
  <2>1. up' \in BOOLEAN /\ keyringFailed' \in BOOLEAN
    BY <1>1, Zenon DEF KeyringFlips
  <2> QED BY <1>1, <2>1 DEF KeyringFlips, TypeOK
<1>2. CASE Restart
  <2>1. broken' \in BOOLEAN
    BY <1>2, Zenon DEF Restart
  <2> QED BY <1>2, <2>1 DEF Restart, TypeOK, store
<1>3. CASE UNCHANGED vars
  BY <1>3 DEF vars, store, hist, bounds, TypeOK
<1> QED BY <1>1, <1>2, <1>3, QuietType, SetType DEF Next

-----------------------------------------------------------------------------
(* While nothing can bring an older token back.                            *)

\* What can bring an older token back stays.
LEMMA SteadyBefore == ASSUME TypeOK, [Next]_vars, Steady' PROVE Steady
<1>1. UNCHANGED <<raced, keyringFailed, broken>> => (raced => raced') /\ (keyringFailed => keyringFailed') /\ (broken => broken')
  OBVIOUS
<1>2. ASSUME NEW t \in Tasks, SetBegin(t)
      PROVE  (raced => raced') /\ (keyringFailed => keyringFailed') /\ (broken => broken')
  <2>1. (raced' = TRUE) <=> (raced \/ \E u \in Tasks : pc[u] \in {"retrieve", "readFile", "refill"})
    BY <1>2, Zenon DEF SetBegin, SetLocked
  <2>2. UNCHANGED <<keyringFailed, broken>>
    BY <1>2 DEF SetBegin, SetLocked
  <2> QED BY <2>1, <2>2, Zenon
<1>3. ASSUME NEW t \in Tasks, WriteFile(t)
      PROVE  (raced => raced') /\ (keyringFailed => keyringFailed') /\ (broken => broken')
  <2>1. UNCHANGED <<raced, keyringFailed>>
    BY <1>3 DEF WriteFile
  <2>2. CASE broken' = broken
    BY <2>1, <2>2
  <2>3. CASE broken' = TRUE
    BY <2>1, <2>3, Zenon
  <2> QED BY <1>3, <2>2, <2>3 DEF WriteFile
<1>4. ASSUME KeyringFlips \/ Restart
      PROVE  (raced => raced') /\ (keyringFailed => keyringFailed') /\ (broken => broken')
  <2>1. CASE KeyringFlips
    <3>1. (keyringFailed' = TRUE) <=> (keyringFailed \/ up)
      BY <2>1, Zenon DEF KeyringFlips
    <3>2. UNCHANGED <<raced, broken>>
      BY <2>1 DEF KeyringFlips
    <3> QED BY <3>1, <3>2, Zenon
  <2>2. CASE Restart
    <3>1. (broken' = TRUE) <=> (broken \/ \E t \in Tasks : pc[t] = "write")
      BY <2>2, Zenon DEF Restart
    <3>2. UNCHANGED <<raced, keyringFailed>>
      BY <2>2 DEF Restart
    <3> QED BY <3>1, <3>2, Zenon
  <2> QED BY <1>4, <2>1, <2>2
<1>5. ASSUME NEW t \in Tasks, Store(t) \/ Truncate(t)
      PROVE  (raced => raced') /\ (keyringFailed => keyringFailed') /\ (broken => broken')
  <2>1. UNCHANGED <<raced, broken>>
    BY <1>5 DEF Store, Truncate
  <2>2. keyringFailed => keyringFailed'
    BY <1>5, Zenon DEF Store, Truncate
  <2> QED BY <2>1, <2>2, Zenon
<1>6. ASSUME NEW t \in Tasks,
             \/ \E s \in ScopeSets : Call(t, s)
             \/ GetCached(t) \/ Retrieve(t) \/ RetrieveFile(t) \/ Refill(t) \/ Done(t) \/ Renew(t)
      PROVE  UNCHANGED <<raced, keyringFailed, broken>>
  BY <1>6 DEF Call, GetCached, Retrieve, RetrieveFile, Refill, Done, Renew, hist
<1>7. UNCHANGED vars => UNCHANGED <<raced, keyringFailed, broken>>
  BY DEF vars, hist
<1>8. (raced => raced') /\ (keyringFailed => keyringFailed') /\ (broken => broken')
  BY <1>1, <1>2, <1>3, <1>4, <1>5, <1>6, <1>7 DEF Next
<1> QED BY <1>8 DEF Steady

\* What is retrieved is what the keyring holds, or else the file.
LEMMA RetrievedIs ==
    ASSUME TypeOK, StoreInv
    PROVE  Retrieved = IF keyring # Absent THEN keyring ELSE file
BY DEF TypeOK, StoreInv, Retrieved, Backends

\* ... after a step.
LEMMA RetrievedNext ==
    ASSUME TypeOK', ~ up' \/ backend' = "File" => keyring' = Absent,
           backend' = "Keyring" => file' = Absent
    PROVE  Retrieved' = IF keyring' # Absent THEN keyring' ELSE file'
BY DEF TypeOK, Retrieved, Backends

\* If nothing is retrieved, then no set has stored anything, and every list is newest.
LEMMA NothingStored ==
    ASSUME TypeOK, StoreInv, \A u \in Tasks : pc[u] # "write", Retrieved.list = {}
    PROVE  (\A s \in ScopeSets : latest[s] = 0) /\ \A list : Newest(list)
<1>1. \A s \in ScopeSets : latest[s] = 0
  BY EmptyNewest DEF StoreInv
<1> QED BY <1>1 DEF Newest

\* The steps of get and of the authenticator leave the store and the lock alone.
LEMMA QuietStore ==
    ASSUME TypeOK, StoreInv, TypeOK', NEW t \in Tasks,
           \/ \E s \in ScopeSets : Call(t, s)
           \/ GetCached(t) \/ Retrieve(t) \/ RetrieveFile(t) \/ Refill(t) \/ Done(t) \/ Renew(t)
    PROVE  /\ StoreInv'
           /\ UNCHANGED <<store, latest, lock, issued>>
           /\ \A u \in Tasks \ {t} : /\ pc'[u] = pc[u] /\ want'[u] = want[u]
                                     /\ raw'[u] = raw[u] /\ got'[u] = got[u]
                                     /\ floor'[u] = floor[u]
           /\ pc[t] \notin Storing /\ pc'[t] \notin Storing
<1> USE DEF TypeOK, Goto, Answer, Getting, Storing, store, hist, bounds
<1>1. UNCHANGED <<store, latest, lock, issued>>
  BY DEF Call, GetCached, Retrieve, RetrieveFile, Refill, Done, Renew
<1>2. pc[t] \notin Storing /\ pc'[t] \notin Storing
  BY DEF Call, GetCached, Retrieve, RetrieveFile, Refill, Done, Renew
<1>3. \A u \in Tasks \ {t} : pc'[u] = pc[u] /\ want'[u] = want[u] /\ raw'[u] = raw[u]
  BY DEF Call, GetCached, Retrieve, RetrieveFile, Refill, Done, Renew
<1>4. \A u \in Tasks \ {t} : got'[u] = got[u] /\ floor'[u] = floor[u]
  BY DEF Call, GetCached, Retrieve, RetrieveFile, Refill, Done, Renew
<1>5. pc'[t] = "readFile" => keyring = Absent /\ backend # "Keyring"
  BY DEF Call, GetCached, Retrieve, RetrieveFile, Refill, Done, Renew, StoreInv
<1>6. (\A u \in Tasks : pc'[u] # "write") => \A u \in Tasks : pc[u] # "write"
  BY <1>2, <1>3
<1>7. Retrieved' = Retrieved
  BY <1>1 DEF Retrieved
<1>8. Newest(Retrieved.list) => Newest(Retrieved.list)'
  BY <1>1, <1>7 DEF Newest
<1> QED BY <1>1, <1>2, <1>3, <1>4, <1>5, <1>6, <1>8 DEF StoreInv

\* What they leave of the cache's invariant to be shown: that of the task that moves.
LEMMA QuietCache ==
    ASSUME TypeOK, CacheInv, TypeOK', NEW t \in Tasks, UNCHANGED <<latest, lock, issued>>,
           \A u \in Tasks \ {t} : /\ pc'[u] = pc[u] /\ want'[u] = want[u]
                                  /\ raw'[u] = raw[u] /\ got'[u] = got[u]
                                  /\ floor'[u] = floor[u],
           pc[t] \notin Storing, pc'[t] \notin Storing,
           cache' = cache \/ (lock = None /\ Newest(cache)'),
           pc'[t] \in {"answered", "set"} => Newest(cache)',
           pc'[t] \in Getting => lock = None,
           pc'[t] = "refill" => Newest(raw[t])',
           pc'[t] \in {"get"} \cup Getting => floor'[t] <= latest[want'[t]],
           pc'[t] = "answered" => got'[t] >= floor'[t]
    PROVE  CacheInv'
<1>1. \A u \in Tasks : pc'[u] \in Storing => u # t /\ pc[u] \in Storing /\ lock = u
  BY DEF TypeOK
<1>2. cache' = cache => (Newest(cache)' <=> Newest(cache))
  BY DEF Newest
<1>3. \A u \in Tasks \ {t} : Newest(raw[u])' <=> Newest(raw[u])
  BY DEF Newest
<1>4. \/ Newest(cache)'
      \/ (cache' = {} /\ \A u \in Tasks : pc'[u] \notin {"answered", "set"} \cup Storing)
  BY <1>1, <1>2 DEF CacheInv
<1>5. ASSUME NEW u \in Tasks, pc'[u] \in Storing
      PROVE  /\ raw'[u] = cache'
             /\ StoredToken(want'[u], issued') \in cache'
             /\ \A e \in cache' : Covers(e.scopes, want'[u]) => e.token = issued'
  <2>1. u # t /\ pc[u] \in Storing /\ lock = u
    BY <1>1, <1>5
  <2>2. cache' = cache
    BY <2>1
  <2> QED BY <2>1, <2>2 DEF CacheInv
<1>6. \A u \in Tasks :
        /\ pc'[u] \in Getting => lock' = None
        /\ pc'[u] = "refill" => Newest(raw[u])'
        /\ pc'[u] \in {"get"} \cup Getting => floor'[u] <= latest'[want'[u]]
        /\ pc'[u] = "answered" => got'[u] >= floor'[u]
  BY <1>3 DEF CacheInv
<1> QED BY <1>4, <1>5, <1>6 DEF CacheInv

\* get answers with nothing older than what was stored before its call.
LEMMA GetStep ==
    ASSUME TypeOK, StoreInv, CacheInv, TypeOK', NEW t \in Tasks,
           \/ \E s \in ScopeSets : Call(t, s)
           \/ GetCached(t) \/ Retrieve(t) \/ RetrieveFile(t) \/ Refill(t) \/ Done(t) \/ Renew(t)
    PROVE  StoreInv' /\ CacheInv'
<1>0. StoreInv'
  BY QuietStore
<1> DEFINE Same ==
      /\ UNCHANGED <<latest, lock, issued>>
      /\ \A u \in Tasks \ {t} : /\ pc'[u] = pc[u] /\ want'[u] = want[u]
                                /\ raw'[u] = raw[u] /\ got'[u] = got[u]
                                /\ floor'[u] = floor[u]
      /\ pc[t] \notin Storing /\ pc'[t] \notin Storing
<1>00. Same
  BY QuietStore
<1>a. /\ pc \in [Tasks -> {"idle", "get", "answered", "set"} \cup Getting \cup Storing]
      /\ got \in [Tasks -> 0..issued] /\ floor \in [Tasks -> 0..issued]
      /\ want \in [Tasks -> ScopeSets] /\ raw \in [Tasks -> SUBSET Entries]
      /\ latest \in [ScopeSets -> 0..issued] /\ issued \in Nat /\ cache \subseteq Entries
  BY DEF TypeOK
<1>b. pc[t] \in Getting => lock = None /\ \A u \in Tasks : pc[u] # "write"
  BY DEF CacheInv, TypeOK, Storing
<1>c. ASSUME \A s \in ScopeSets : latest[s] = 0, pc[t] \in Getting PROVE floor[t] = 0
  BY <1>a, <1>c DEF CacheInv
<1>1. ASSUME NEW s \in ScopeSets, Call(t, s) PROVE CacheInv'
  <2>1. pc'[t] = "get" /\ floor'[t] = latest[s] /\ want'[t] = s /\ cache' = cache
    BY <1>1, <1>a DEF Call, Goto
  <2>2. latest[s] \in Nat
    BY <1>a
  <2> QED BY <1>00, <2>1, <2>2, QuietCache DEF Getting
<1>2. ASSUME GetCached(t) PROVE CacheInv'
  <2>1. pc[t] = "get" /\ lock = None /\ UNCHANGED <<cache, want, floor>>
    BY <1>2 DEF GetCached, hist
  <2>2. CASE Match(cache, want[t]) # 0
    <3>1. pc'[t] = "answered" /\ got'[t] = Match(cache, want[t])
      BY <1>2, <1>a, <2>2 DEF GetCached, Answer, Goto
    <3>2. cache # {}
      BY <2>2 DEF Match
    <3>3. Newest(cache)
      BY <3>2 DEF CacheInv
    <3>4. Match(cache, want[t]) >= latest[want[t]] /\ Match(cache, want[t]) \in Nat
      BY <1>a, <3>3, MatchNewest, MatchIs
    <3>5. floor[t] <= latest[want[t]] /\ floor[t] \in Nat /\ latest[want[t]] \in Nat
      BY <1>a, <2>1 DEF CacheInv
    <3>6. got'[t] >= floor'[t]
      BY <2>1, <3>1, <3>4, <3>5
    <3>7. Newest(cache)'
      BY <1>00, <2>1, <3>3 DEF Newest
    <3> QED BY <1>00, <2>1, <3>1, <3>6, <3>7, QuietCache DEF Getting
  <2>3. CASE Match(cache, want[t]) = 0
    <3>1. pc'[t] = "retrieve"
      BY <1>2, <1>a, <2>3 DEF GetCached, Goto
    <3>2. floor'[t] <= latest[want'[t]]
      BY <2>1 DEF CacheInv
    <3> QED BY <1>00, <2>1, <3>1, <3>2, QuietCache DEF Getting
  <2> QED BY <2>2, <2>3
<1>3. ASSUME Retrieve(t) PROVE CacheInv'
  <2>1. pc[t] = "retrieve" /\ lock = None /\ UNCHANGED <<cache, want, floor>>
    BY <1>3, <1>b DEF Retrieve, hist, Getting
  <2>2. floor'[t] <= latest[want'[t]]
    BY <2>1 DEF CacheInv, Getting
  <2>3. CASE backend # "File" /\ up /\ keyring # Absent
    <3>1. pc'[t] = "refill" /\ raw'[t] = keyring.list
      BY <1>3, <1>a, <2>3 DEF Retrieve, Goto
    <3>2. Newest(keyring.list)
      BY <1>b, <2>1, <2>3 DEF StoreInv, Retrieved, Getting
    <3>3. Newest(raw[t])'
      BY <1>00, <3>1, <3>2 DEF Newest
    <3> QED BY <1>00, <2>1, <2>2, <3>1, <3>3, QuietCache DEF Getting
  <2>4. CASE pc'[t] = "readFile"
    BY <1>00, <2>1, <2>2, <2>4, QuietCache DEF Getting
  <2>5. CASE Answer(t, 0) /\ backend = "Keyring" /\ (~ up \/ keyring = Absent)
    <3>1. pc'[t] = "answered" /\ got'[t] = 0
      BY <1>a, <2>5 DEF Answer, Goto
    <3>2. Retrieved.list = {}
      BY <2>5 DEF Retrieved, Absent
    <3>3. (\A s \in ScopeSets : latest[s] = 0) /\ Newest(cache)
      BY <1>b, <2>1, <3>2, NothingStored DEF Getting
    <3>4. floor[t] = 0
      BY <1>c, <2>1, <3>3 DEF Getting
    <3>5. Newest(cache)'
      BY <1>00, <2>1, <3>3 DEF Newest
    <3> QED BY <1>00, <2>1, <3>1, <3>4, <3>5, QuietCache DEF Getting
  <2> QED BY <1>3, <1>a, <2>3, <2>4, <2>5 DEF Retrieve, Goto
<1>4. ASSUME RetrieveFile(t) PROVE CacheInv'
  <2>1. pc[t] = "readFile" /\ lock = None /\ UNCHANGED <<cache, want, floor>>
    BY <1>4, <1>b DEF RetrieveFile, hist, Getting
  <2>2. Retrieved = file /\ \A u \in Tasks : pc[u] # "write"
    BY <1>b, <2>1, RetrievedIs DEF StoreInv, Getting
  <2>3. CASE file.kind = "tokens"
    <3>1. pc'[t] = "refill" /\ raw'[t] = file.list
      BY <1>4, <1>a, <2>3 DEF RetrieveFile, Goto
    <3>2. Newest(file.list)
      BY <2>2 DEF StoreInv
    <3>3. Newest(raw[t])'
      BY <1>00, <3>1, <3>2 DEF Newest
    <3>4. floor'[t] <= latest[want'[t]]
      BY <2>1 DEF CacheInv, Getting
    <3> QED BY <1>00, <2>1, <3>1, <3>3, <3>4, QuietCache DEF Getting
  <2>4. CASE file.kind # "tokens"
    <3>1. pc'[t] = "answered" /\ got'[t] = 0
      BY <1>4, <1>a, <2>4 DEF RetrieveFile, Answer, Goto
    <3>2. file.list = {}
      BY <2>4 DEF TypeOK, Contents, Absent, Torn
    <3>3. (\A s \in ScopeSets : latest[s] = 0) /\ Newest(cache)
      BY <2>2, <3>2, NothingStored
    <3>4. floor[t] = 0
      BY <1>c, <2>1, <3>3 DEF Getting
    <3>5. Newest(cache)'
      BY <1>00, <2>1, <3>3 DEF Newest
    <3> QED BY <1>00, <2>1, <3>1, <3>4, <3>5, QuietCache DEF Getting
  <2> QED BY <2>3, <2>4
<1>5. ASSUME Refill(t) PROVE CacheInv'
  <2>1. /\ pc[t] = "refill" /\ lock = None /\ UNCHANGED <<want, floor>> /\ cache' = raw[t]
        /\ pc'[t] = "answered" /\ got'[t] = Match(raw[t], want[t])
    BY <1>5, <1>a DEF Refill, Answer, Goto, hist
  <2>2. Newest(raw[t]) /\ floor[t] <= latest[want[t]]
    BY <2>1 DEF CacheInv, Getting
  <2>3. Match(raw[t], want[t]) >= latest[want[t]] /\ Match(raw[t], want[t]) \in Nat
    BY <1>a, <2>2, MatchNewest, MatchIs
  <2>4. floor[t] \in Nat /\ latest[want[t]] \in Nat
    BY <1>a
  <2>5. got'[t] >= floor'[t]
    BY <2>1, <2>2, <2>3, <2>4
  <2>6. Newest(cache)'
    BY <1>00, <2>1, <2>2 DEF Newest
  <2> QED BY <1>00, <2>1, <2>5, <2>6, QuietCache DEF Getting
<1>6. ASSUME Done(t) PROVE CacheInv'
  <2>1. pc'[t] = "idle" /\ cache' = cache
    BY <1>6, <1>a DEF Done, Goto
  <2> QED BY <1>00, <2>1, QuietCache DEF Getting
<1>7. ASSUME Renew(t) PROVE CacheInv'
  <2>1. pc'[t] = "set" /\ cache' = cache /\ pc[t] = "answered"
    BY <1>7, <1>a DEF Renew, Goto
  <2>2. Newest(cache)
    BY <2>1 DEF CacheInv
  <2>3. Newest(cache)'
    BY <1>00, <2>1, <2>2 DEF Newest
  <2> QED BY <1>00, <2>1, <2>3, QuietCache DEF Getting
<1> QED BY <1>0, <1>1, <1>2, <1>3, <1>4, <1>5, <1>6, <1>7

-----------------------------------------------------------------------------
(* set.                                                                    *)

\* While a set stores, no other set does and no get is between its locks.
LEMMA Holder ==
    ASSUME TypeOK, CacheInv, NEW t \in Tasks, pc[t] \in Storing
    PROVE  /\ Newest(cache) /\ raw[t] = cache /\ got[t] = issued
           /\ StoredToken(want[t], issued) \in cache
           /\ \A e \in cache : Covers(e.scopes, want[t]) => e.token = issued
           /\ \A u \in Tasks \ {t} : pc[u] \notin Storing /\ pc[u] \notin Getting
<1>1. lock = t /\ got[t] = issued
  BY DEF TypeOK
<1>2. \A u \in Tasks \ {t} : pc[u] \notin Storing
  BY <1>1 DEF TypeOK
<1>3. \A u \in Tasks \ {t} : pc[u] \notin Getting
  BY <1>1 DEF CacheInv
<1> QED BY <1>1, <1>2, <1>3 DEF CacheInv

\* A set goes on: the cache's invariant does not tell its steps apart.
LEMMA SetGoesOn ==
    ASSUME TypeOK, CacheInv, NEW t \in Tasks, pc[t] \in Storing,
           NEW l \in Storing, pc' = [pc EXCEPT ![t] = l],
           UNCHANGED <<cache, lock, want, raw, got, issued, latest, floor>>
    PROVE  CacheInv'
<1>1. /\ pc'[t] = l /\ l \notin Getting \cup {"get", "answered", "set"}
      /\ \A u \in Tasks \ {t} : pc'[u] = pc[u]
  BY DEF TypeOK, Storing, Getting
<1>2. \A u \in Tasks \ {t} : pc'[u] \notin Storing /\ pc'[u] \notin Getting
  BY <1>1, Holder
<1>3. Newest(cache)'
  BY Holder DEF Newest
<1>4. \A u \in Tasks :
        /\ pc'[u] \in Getting => lock' = None
        /\ pc'[u] = "refill" => Newest(raw[u])'
        /\ pc'[u] \in Storing =>
            /\ raw'[u] = cache'
            /\ StoredToken(want'[u], issued') \in cache'
            /\ \A e \in cache' : Covers(e.scopes, want'[u]) => e.token = issued'
  BY <1>1, <1>2, Holder DEF Getting
<1>5. \A u \in Tasks : pc'[u] \in {"get"} \cup Getting => floor'[u] <= latest'[want'[u]]
  BY <1>1 DEF CacheInv
<1>6. \A u \in Tasks : pc'[u] = "answered" => got'[u] >= floor'[u]
  BY <1>1 DEF CacheInv
<1> QED BY <1>3, <1>4, <1>5, <1>6 DEF CacheInv

\* A set ends; if it has stored the list, then the list has its token for its scopes.
LEMMA SetEnded ==
    ASSUME TypeOK, CacheInv, NEW t \in Tasks, pc[t] \in Storing, NEW ok \in BOOLEAN,
           SetEnds(t, ok), UNCHANGED <<cache, want, issued, floor>>
    PROVE  /\ CacheInv' /\ Newest(cache)'
           /\ ~ ok => latest' = latest
           /\ pc'[t] = "idle"
           /\ \A u \in Tasks \ {t} : pc'[u] = pc[u]
<1>0. /\ pc \in [Tasks -> {"idle", "get", "answered", "set"} \cup Getting \cup Storing]
      /\ got \in [Tasks -> 0..issued] /\ floor \in [Tasks -> 0..issued]
      /\ want \in [Tasks -> ScopeSets] /\ raw \in [Tasks -> SUBSET Entries]
      /\ latest \in [ScopeSets -> 0..issued] /\ issued \in Nat
  BY DEF TypeOK
<1>1. /\ pc'[t] = "idle" /\ lock' = None
      /\ \A u \in Tasks \ {t} : pc'[u] = pc[u] /\ got'[u] = got[u]
  BY <1>0 DEF SetEnds, Goto
<1>2. \A u \in Tasks : pc'[u] \notin Storing /\ pc'[u] \notin Getting
  BY <1>1, Holder DEF Storing, Getting
<1>3. \A s \in ScopeSets : \/ latest'[s] = latest[s]
                           \/ s = want[t] /\ latest'[s] = issued
  BY <1>0, Holder DEF SetEnds
<1>4. ASSUME NEW s \in ScopeSets, latest'[s] # 0
      PROVE  /\ \E e \in cache' : e.scopes = s
             /\ \A e \in cache' : Covers(e.scopes, s) => e.token >= latest'[s]
  <2>1. CASE latest'[s] = latest[s]
    BY <1>4, <2>1, Holder DEF Newest
  <2>2. CASE s = want[t] /\ latest'[s] = issued
    <3>1. StoredToken(want[t], issued) \in cache' /\ StoredToken(want[t], issued).scopes = s
      BY <2>2, Holder DEF StoredToken
    <3> QED BY <1>0, <2>2, <3>1, Holder
  <2> QED BY <1>3, <2>1, <2>2
<1>5. Newest(cache)'
  BY <1>4 DEF Newest
<1>6. ASSUME NEW u \in Tasks, pc'[u] = "get" PROVE floor'[u] <= latest'[want'[u]]
  <2>1. pc[u] = "get" /\ u # t
    BY <1>1, <1>6
  <2>2. floor[u] <= latest[want[u]]
    BY <2>1 DEF CacheInv
  <2>3. latest'[want[u]] = latest[want[u]] \/ latest'[want[u]] = issued
    BY <1>0, <1>3
  <2>4. floor[u] \in 0..issued /\ latest[want[u]] \in 0..issued
    BY <1>0
  <2> QED BY <1>0, <2>2, <2>3, <2>4
<1>7. \A u \in Tasks : pc'[u] = "answered" => got'[u] >= floor'[u]
  BY <1>1 DEF CacheInv
<1>8. CacheInv'
  BY <1>2, <1>5, <1>6, <1>7 DEF CacheInv, Getting
<1>9. ~ ok => latest' = latest
  BY DEF SetEnds
<1> QED BY <1>1, <1>5, <1>8, <1>9

\* A list is newest after a step that forgets some of the last tokens, at most.
LEMMA StaysNewest ==
    ASSUME NEW list, Newest(list),
           \A s \in ScopeSets : latest'[s] = latest[s] \/ latest'[s] = 0
    PROVE  \A s \in ScopeSets : latest'[s] # 0 =>
             /\ \E e \in list : e.scopes = s
             /\ \A e \in list : Covers(e.scopes, s) => e.token >= latest'[s]
BY DEF Newest

\* A set begins: its token takes the place of those that cover its scopes.
LEMMA SetBeginStep ==
    ASSUME TypeOK, StoreInv, CacheInv, TypeOK', Steady', NEW t \in Tasks, SetBegin(t)
    PROVE  StoreInv' /\ CacheInv'
<1> DEFINE new == StoredToken(want[t], issued + 1)
           list == Keep(cache, want[t]) \cup {new}
<1>0. /\ pc \in [Tasks -> {"idle", "get", "answered", "set"} \cup Getting \cup Storing]
      /\ got \in [Tasks -> 0..issued] /\ floor \in [Tasks -> 0..issued]
      /\ want \in [Tasks -> ScopeSets] /\ raw \in [Tasks -> SUBSET Entries]
      /\ latest \in [ScopeSets -> 0..issued] /\ issued \in Nat /\ cache \subseteq Entries
  BY DEF TypeOK
<1>1. /\ pc[t] = "set" /\ lock = None /\ lock' = t /\ issued' = issued + 1
      /\ got' = [got EXCEPT ![t] = issued + 1]
      /\ cache' = list
      /\ raw' = [raw EXCEPT ![t] = list]
      /\ latest' = [w \in ScopeSets |-> IF Dropped(w, want[t]) THEN 0 ELSE latest[w]]
      /\ floor' = [u \in Tasks |-> IF Dropped(want[u], want[t]) THEN 0 ELSE floor[u]]
      /\ pc' = [pc EXCEPT ![t] = "store"]
      /\ UNCHANGED <<backend, keyring, up, file, want>>
  BY DEF SetBegin, SetLocked, Goto, store
<1>2. \A u \in Tasks : pc[u] \notin Getting
  BY Zenon DEF SetBegin, SetLocked, Steady, Getting
<1>3. \A u \in Tasks : pc[u] \notin Storing
  BY <1>1 DEF TypeOK
<1>4. Newest(cache)
  BY <1>1 DEF CacheInv
<1>5. new.scopes = want[t] /\ new.token = issued'
  BY <1>1 DEF StoredToken
<1> HIDE DEF new
<1>6. ASSUME NEW s \in ScopeSets, latest'[s] # 0
      PROVE  /\ \E e \in cache' : e.scopes = s
             /\ \A e \in cache' : Covers(e.scopes, s) => e.token >= latest'[s]
  <2>1. ~ Dropped(s, want[t]) /\ latest'[s] = latest[s] /\ latest[s] # 0
    BY <1>1, <1>6
  <2>2. \E e \in cache' : e.scopes = s
    <3>1. CASE s = want[t]
      BY <1>1, <1>5, <3>1
    <3>2. CASE ~ Covers(s, want[t])
      <4>1. PICK e \in cache : e.scopes = s
        BY <1>4, <2>1 DEF Newest
      <4>2. e \in list
        BY <3>2, <4>1 DEF Keep
      <4> QED BY <1>1, <4>1, <4>2
    <3> QED BY <2>1, <3>1, <3>2 DEF Dropped
  <2>3. ASSUME NEW e \in cache', Covers(e.scopes, s) PROVE e.token >= latest'[s]
    <3>1. CASE e = new
      BY <1>0, <1>1, <1>5, <2>1, <3>1
    <3>2. CASE e # new
      <4>1. e \in cache
        BY <1>1, <3>2 DEF Keep
      <4> QED BY <1>4, <2>1, <2>3, <4>1 DEF Newest
    <3> QED BY <3>1, <3>2
  <2> QED BY <2>2, <2>3
<1>7. Newest(cache)'
  BY <1>6 DEF Newest
<1>8. \A e \in cache' : Covers(e.scopes, want[t]) => e.token = issued'
  BY <1>1, <1>5 DEF Keep
<1>9. new \in cache' /\ new = StoredToken(want'[t], issued')
  BY <1>1 DEF new
<1>10. pc'[t] = "store" /\ raw'[t] = cache' /\ \A u \in Tasks \ {t} : pc'[u] = pc[u] /\ got'[u] = got[u]
  BY <1>0, <1>1
<1>11. StoreInv'
  <2>1. Retrieved' = Retrieved
    BY <1>1 DEF Retrieved
  <2>2. Newest(Retrieved.list)
    BY <1>3 DEF StoreInv, Storing
  <2>3. \A s \in ScopeSets : latest'[s] = latest[s] \/ latest'[s] = 0
    BY <1>1
  <2>4. Newest(Retrieved.list)'
    BY <2>1, <2>2, <2>3, StaysNewest DEF Newest
  <2> QED BY <1>1, <1>10, <2>4 DEF StoreInv
<1>12. ASSUME NEW u \in Tasks, pc'[u] = "get" PROVE floor'[u] <= latest'[want'[u]]
  <2>1. pc[u] = "get" /\ want'[u] = want[u] /\ want[u] \in ScopeSets
    BY <1>0, <1>1, <1>10, <1>12
  <2>2. floor[u] <= latest[want[u]]
    BY <2>1 DEF CacheInv
  <2> QED BY <1>1, <2>1, <2>2
<1>13. ASSUME NEW u \in Tasks, pc'[u] = "answered" PROVE got'[u] >= floor'[u]
  <2>1. pc[u] = "answered" /\ got'[u] = got[u] /\ got[u] \in Nat
    BY <1>0, <1>10, <1>13
  <2>2. got[u] >= floor[u]
    BY <2>1 DEF CacheInv
  <2>3. floor'[u] = 0 \/ floor'[u] = floor[u]
    BY <1>1
  <2> QED BY <2>1, <2>2, <2>3
<1>14. \A u \in Tasks : pc'[u] \notin Getting /\ (pc'[u] \in Storing => u = t)
  BY <1>2, <1>3, <1>10 DEF Getting
<1>15. CacheInv'
  BY <1>1, <1>7, <1>8, <1>9, <1>10, <1>12, <1>13, <1>14 DEF CacheInv, Getting
<1> QED BY <1>11, <1>15

\* A store that fails before it has touched anything.
LEMMA FailedStep ==
    ASSUME TypeOK, StoreInv, CacheInv, NEW t \in Tasks, pc[t] \in Storing, pc[t] # "write",
           SetEnds(t, FALSE), UNCHANGED <<store, cache, want, issued, floor>>
    PROVE  StoreInv' /\ CacheInv'
<1>1. /\ CacheInv' /\ latest' = latest /\ pc'[t] = "idle"
      /\ \A u \in Tasks \ {t} : pc'[u] = pc[u]
  BY SetEnded
<1>2. Retrieved' = Retrieved
  BY DEF Retrieved, store
<1>3. \A u \in Tasks : pc[u] # "write"
  BY Holder DEF Storing
<1>4. Newest(Retrieved.list)'
  BY <1>1, <1>2, <1>3 DEF StoreInv, Newest
<1> QED BY <1>1, <1>4 DEF StoreInv, store

\* The list goes to the keyring, or on to the file, which no list in the keyring hides.
LEMMA StoreStep ==
    ASSUME TypeOK, StoreInv, CacheInv, TypeOK', Steady', NEW t \in Tasks, Store(t)
    PROVE  StoreInv' /\ CacheInv'
<1>0. /\ pc[t] = "store" /\ pc[t] \in Storing /\ pc[t] # "write"
      /\ UNCHANGED <<backend, up, file, cache, want, issued, floor>>
      /\ \A u \in Tasks : pc[u] \notin {"readFile", "truncate", "write"}
  BY Holder DEF Store, bounds, Storing, Getting
<1>1. CASE backend # "File" /\ up /\ keyring' = Stored(raw[t]) /\ SetEnds(t, TRUE)
  <2>1. /\ CacheInv' /\ Newest(cache)' /\ pc'[t] = "idle"
        /\ \A u \in Tasks \ {t} : pc'[u] = pc[u]
    BY <1>0, <1>1, SetEnded
  <2>2. keyring'.list = cache' /\ keyring' # Absent
    BY <1>0, <1>1, Holder DEF Stored, Absent
  <2>3. Retrieved' = keyring'
    BY <1>0, <1>1, <2>2 DEF Retrieved
  <2>4. Newest(Retrieved.list)'
    BY <2>1, <2>2, <2>3 DEF Newest
  <2>5. \A u \in Tasks : pc'[u] \notin {"readFile", "truncate", "write"}
    BY <1>0, <2>1
  <2>6. (~ up' \/ backend' = "File" => keyring' = Absent) /\ (backend' = "Keyring" => file' = Absent)
    BY <1>0, <1>1 DEF StoreInv
  <2> QED BY <2>1, <2>4, <2>5, <2>6 DEF StoreInv
<1>2. CASE SetEnds(t, FALSE) /\ UNCHANGED keyring
  BY <1>0, <1>2, FailedStep DEF store
<1>3. CASE /\ backend # "Keyring"
           /\ Goto(t, "truncate")
           /\ keyringFailed' = (keyringFailed \/ keyring # Absent)
           /\ UNCHANGED <<keyring, lock, latest, raw, got>>
  <2>1. CacheInv'
    BY <1>0, <1>3, SetGoesOn DEF Goto, Storing
  <2>2. Retrieved' = Retrieved
    BY <1>0, <1>3 DEF Retrieved
  <2>3. Newest(Retrieved.list)'
    BY <1>0, <1>3, <2>2 DEF StoreInv, Newest
  <2>4. keyring' = Absent /\ backend' # "Keyring"
    <3>1. keyring = Absent
      BY <1>3, Zenon DEF Steady
    <3> QED BY <1>0, <1>3, <3>1
  <2>5. (~ up' \/ backend' = "File" => keyring' = Absent) /\ (backend' = "Keyring" => file' = Absent)
    BY <2>4
  <2> QED BY <2>1, <2>3, <2>4, <2>5 DEF StoreInv
<1> QED BY <1>1, <1>2, <1>3 DEF Store

\* The file is truncated, or could not be opened.
LEMMA TruncateStep ==
    ASSUME TypeOK, StoreInv, CacheInv, NEW t \in Tasks, Truncate(t)
    PROVE  StoreInv' /\ CacheInv'
<1>0. /\ pc[t] = "truncate" /\ pc[t] \in Storing /\ pc[t] # "write"
      /\ UNCHANGED <<backend, keyring, up, cache, want, issued, floor>>
      /\ keyring = Absent /\ backend # "Keyring"
  BY DEF Truncate, bounds, Storing, StoreInv
<1>1. CASE Goto(t, "write") /\ UNCHANGED <<lock, latest, raw, got>>
  <2>1. CacheInv'
    BY <1>0, <1>1, SetGoesOn DEF Goto, Storing
  <2>2. pc'[t] = "write"
    BY <1>1 DEF Goto, TypeOK
  <2> QED BY <1>0, <2>1, <2>2 DEF StoreInv
<1>2. CASE SetEnds(t, FALSE) /\ UNCHANGED file
  BY <1>0, <1>2, FailedStep DEF store
<1> QED BY <1>1, <1>2 DEF Truncate

\* The file is written: a write that breaks off is not steady.
LEMMA WriteStep ==
    ASSUME TypeOK, StoreInv, CacheInv, TypeOK', Steady', NEW t \in Tasks, WriteFile(t)
    PROVE  StoreInv' /\ CacheInv'
<1>0. /\ pc[t] = "write" /\ pc[t] \in Storing
      /\ UNCHANGED <<backend, keyring, up, cache, want, issued, floor>>
      /\ keyring = Absent /\ backend # "Keyring"
  BY DEF WriteFile, bounds, Storing, StoreInv
<1>1. file' = Stored(raw[t]) /\ SetEnds(t, TRUE)
  BY Zenon DEF WriteFile, Steady
<1>2. /\ CacheInv' /\ Newest(cache)' /\ pc'[t] = "idle"
      /\ \A u \in Tasks \ {t} : pc'[u] = pc[u]
  BY <1>0, <1>1, SetEnded
<1>3. file'.list = cache'
  BY <1>0, <1>1, Holder DEF Stored
<1>4. Retrieved' = file'
  BY <1>0 DEF Retrieved
<1>5. Newest(Retrieved.list)'
  BY <1>2, <1>3, <1>4 DEF Newest
<1> QED BY <1>0, <1>2, <1>5 DEF StoreInv

-----------------------------------------------------------------------------
(* The environment.                                                        *)

\* The keyring comes up, still empty: one that goes down is not steady.
LEMMA FlipStep ==
    ASSUME TypeOK, StoreInv, CacheInv, TypeOK', Steady', KeyringFlips
    PROVE  StoreInv' /\ CacheInv'
<1>1. ~ up
  BY Zenon DEF KeyringFlips, Steady
<1>2. UNCHANGED <<backend, keyring, file, cache, lock, pc, want, raw, got, issued, latest, floor>>
  BY DEF KeyringFlips
<1>3. keyring = Absent /\ keyring' = Absent
  BY <1>1, <1>2 DEF StoreInv
<1>4. backend' = "Keyring" => file' = Absent
  BY <1>2 DEF StoreInv
<1>5. Retrieved' = Retrieved
  BY <1>2, <1>3, <1>4, RetrievedIs, RetrievedNext
<1>6. StoreInv'
  BY <1>2, <1>3, <1>4, <1>5 DEF StoreInv, Newest
<1>7. CacheInv'
  BY <1>2 DEF CacheInv, Newest
<1> QED BY <1>6, <1>7

\* A new process has an empty cache, and what the old one stored before it ended.
LEMMA RestartStep ==
    ASSUME TypeOK, StoreInv, CacheInv, Steady', Restart
    PROVE  StoreInv' /\ CacheInv'
<1>1. \A t \in Tasks : pc[t] # "write"
  BY Zenon DEF Restart, Steady
<1>2. /\ UNCHANGED <<backend, keyring, up, file, latest>> /\ cache' = {}
      /\ \A t \in Tasks : pc'[t] = "idle"
  BY DEF Restart, store
<1>3. Retrieved' = Retrieved
  BY <1>2 DEF Retrieved
<1>4. Newest(Retrieved.list)'
  BY <1>1, <1>2, <1>3 DEF StoreInv, Newest
<1>5. StoreInv'
  BY <1>2, <1>4 DEF StoreInv
<1>6. CacheInv'
  BY <1>2 DEF CacheInv, Getting, Storing
<1> QED BY <1>5, <1>6

-----------------------------------------------------------------------------
(* The invariant and what follows from it.                                 *)

\* Every step keeps the invariant.
LEMMA InvStep == TokenInv /\ [Next]_vars => TokenInv'
<1> SUFFICES ASSUME TokenInv, [Next]_vars PROVE TokenInv'
  OBVIOUS
<1>1. TypeOK /\ TypeOK'
  BY NextType DEF TokenInv
<1>2. ASSUME Steady' PROVE StoreInv' /\ CacheInv'
  <2>1. StoreInv /\ CacheInv
    BY <1>1, <1>2, SteadyBefore DEF TokenInv
  <2>2. CASE UNCHANGED vars
    <3>1. UNCHANGED <<backend, keyring, up, file, cache, lock, pc, want, raw, got, issued,
                      latest, floor>>
      BY <2>2 DEF vars, store, bounds, hist
    <3>2. Retrieved' = Retrieved
      BY <3>1 DEF Retrieved
    <3>3. StoreInv'
      BY <2>1, <3>1, <3>2 DEF StoreInv, Newest
    <3>4. CacheInv'
      BY <2>1, <3>1 DEF CacheInv, Newest
    <3> QED BY <3>3, <3>4
  <2>3. ASSUME NEW t \in Tasks,
               \/ \E s \in ScopeSets : Call(t, s)
               \/ GetCached(t) \/ Retrieve(t) \/ RetrieveFile(t) \/ Refill(t) \/ Done(t) \/ Renew(t)
        PROVE  StoreInv' /\ CacheInv'
    BY <1>1, <2>1, <2>3, GetStep
  <2>4. ASSUME NEW t \in Tasks, SetBegin(t) \/ Store(t) \/ Truncate(t) \/ WriteFile(t)
        PROVE  StoreInv' /\ CacheInv'
    BY <1>1, <1>2, <2>1, <2>4, SetBeginStep, StoreStep, TruncateStep, WriteStep
  <2>5. CASE KeyringFlips \/ Restart
    BY <1>1, <1>2, <2>1, <2>5, FlipStep, RestartStep
  <2> QED BY <2>2, <2>3, <2>4, <2>5 DEF Next
<1> QED BY <1>1, <1>2 DEF TokenInv

\* The invariant holds of the specification.
LEMMA InvHolds == Spec => []TokenInv
BY InitInv, InvStep, PTL DEF Spec

\* TypeOK: the cache, the keyring, the file and what a task holds have only tokens that
\* were issued, and the write lock is held by the one set that stores.
THEOREM TypeCorrect == Spec => []TypeOK
<1>1. TokenInv => TypeOK
  BY DEF TokenInv
<1> QED BY <1>1, InvHolds, PTL

\* NoStaleToken: get of SecureTokenStorage never answers with a token older than the last
\* one stored for its scopes before the call.
THEOREM NoStaleSafety == Spec => []NoStaleToken
<1>1. TokenInv => NoStaleToken
  BY DEF TokenInv, CacheInv, NoStaleToken
<1> QED BY <1>1, InvHolds, PTL

\* StoreIsNewest: the token of the last successful set of each set of scopes can be
\* retrieved whenever no set is under way.
THEOREM StoreSafety == Spec => []StoreIsNewest
<1>1. TokenInv => StoreIsNewest
  <2> SUFFICES ASSUME TokenInv, Steady, lock = None, NEW s \in ScopeSets
               PROVE  Match(Retrieved.list, s) >= latest[s]
    BY DEF StoreIsNewest
  <2>1. TypeOK /\ StoreInv
    BY DEF TokenInv
  <2>2. \A t \in Tasks : pc[t] # "write"
    BY <2>1 DEF TypeOK, Storing
  <2>3. Newest(Retrieved.list)
    BY <2>1, <2>2 DEF StoreInv
  <2>4. \A c \in Contents : c.list \subseteq Entries
    BY DEF Contents, Absent, Torn
  <2>5. Retrieved.list \subseteq Entries
    BY <2>1, <2>4, RetrievedIs DEF TypeOK
  <2> QED BY <2>1, <2>3, <2>5, MatchNewest DEF TypeOK
<1> QED BY <1>1, InvHolds, PTL
=============================================================================
