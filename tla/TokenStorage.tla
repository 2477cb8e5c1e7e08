---------------------------- MODULE TokenStorage ----------------------------
(***************************************************************************)
(* SecureTokenStorage of cloudsync-providers (token_storage.rs): OAuth     *)
(* tokens in the system keyring, in a file, or in the keyring with the     *)
(* file as fallback, behind a cache under a tokio RwLock.  Tasks of one    *)
(* process ask yup-oauth2's authenticator for a token; it calls get and,   *)
(* when there is no usable token, obtains one and calls set.  set keeps    *)
(* the write lock while it stores; get retrieves without a lock and takes  *)
(* the lock again to fill the cache.  The keyring comes and goes, and the  *)
(* process is restarted.                                                   *)
(*                                                                         *)
(* A list of stored tokens is the set of its entries: set pushes a token   *)
(* that is newer than all that are there, so the entries of a list are     *)
(* always in the order of their tokens' numbers.                           *)
(***************************************************************************)
EXTENDS Integers, FiniteSetsExt, OAuth

CONSTANTS Tasks,
          ScopeSets,    \* the sets of scopes that tokens are asked for
          MaxTokens,    \* bound: tokens that the authenticator obtains
          MaxFlips,     \* bound: times the keyring comes up or goes down
          MaxRestarts   \* bound: restarts of the process

ASSUME ConstantsAssumption ==
    /\ Tasks # {}
    /\ None \notin Tasks
    /\ ScopeSets # {} /\ \A s \in ScopeSets : s # {}
    /\ {MaxTokens, MaxFlips, MaxRestarts} \subseteq Nat

VARIABLES
    backend,    \* the StorageBackend
    keyring,    \* what the keyring holds: Absent or a list of tokens
    up,         \* the keyring answers
    file,       \* what is at the file's path: Absent, Torn or a list
    cache,      \* the list of stored tokens in memory
    lock,       \* the task that holds the cache's write lock, or none
    pc, want,   \* where each task is, and the scopes it asks for
    raw,        \* the list a task has read, or serialized to store
    got,        \* the token that get returned to a task, or that it sets; 0: None
    issued, flips, restarts,
    \* history variables, read by properties only:
    latest,     \* per scope set, the last token a set of it has stored; 0: none,
                \* or one of fewer scopes has been set since
    floor,      \* latest of a task's scopes when it called get, if still so
    raced,      \* a set has begun while a get was between its two locks
    keyringFailed,  \* the keyring has gone down after being up, or has refused a list
                    \* while it held one
    broken      \* a write of the file has broken off

store == <<backend, keyring, up, file>>
hist == <<latest, floor, raced, keyringFailed, broken>>
bounds == <<issued, flips, restarts>>
vars == <<store, cache, lock, pc, want, raw, got, bounds, hist>>

Backends == {"Keyring", "File", "KeyringWithFallback"}
StoredToken(scopes, token) == [scopes |-> scopes, token |-> token]
Absent == [kind |-> "absent", list |-> {}]
Torn == [kind |-> "torn", list |-> {}]
Stored(list) == [kind |-> "tokens", list |-> list]

Init ==
    /\ \E custom \in Backends, cachePath \in BOOLEAN : backend = Build(custom, cachePath)
    /\ keyring = Absent /\ file = Absent
    /\ up \in BOOLEAN
    /\ cache = {}
    /\ lock = None
    /\ pc = [t \in Tasks |-> "idle"]
    /\ want = [t \in Tasks |-> CHOOSE s \in ScopeSets : TRUE]
    /\ raw = [t \in Tasks |-> {}]
    /\ got = [t \in Tasks |-> 0]
    /\ issued = 0 /\ flips = 0 /\ restarts = 0
    /\ latest = [s \in ScopeSets |-> 0]
    /\ floor = [t \in Tasks |-> 0]
    /\ raced = FALSE /\ keyringFailed = FALSE /\ broken = FALSE

Goto(t, l) == pc' = [pc EXCEPT ![t] = l]

\* scopes_covered_by(available, required)
Covers(available, required) == required \subseteq available

\* The first token of a list whose scopes cover s; 0 if there is none.
Match(list, s) ==
    LET hits == {e \in list : Covers(e.scopes, s)}
    IN  IF hits = {} THEN 0 ELSE Min({e.token : e \in hits})

-----------------------------------------------------------------------------
(* get.                                                                    *)

\* Authenticator::token asks the storage for the scopes of the call.
Call(t, s) ==
    /\ pc[t] = "idle"
    /\ want' = [want EXCEPT ![t] = s]
    /\ floor' = [floor EXCEPT ![t] = latest[s]]
    /\ Goto(t, "get")
    /\ UNCHANGED <<store, cache, lock, raw, got, bounds, latest, raced, keyringFailed, broken>>

\* get returns its answer; what was read is dropped.
Answer(t, n) ==
    /\ got' = [got EXCEPT ![t] = n]
    /\ raw' = [raw EXCEPT ![t] = {}]
    /\ Goto(t, "answered")

\* The cache, under the read lock.
GetCached(t) ==
    /\ pc[t] = "get"
    /\ lock = None
    /\ LET n == Match(cache, want[t]) IN
         \/ n # 0 /\ Answer(t, n)
         \/ n = 0 /\ Goto(t, "retrieve") /\ UNCHANGED <<got, raw>>
    /\ UNCHANGED <<store, cache, lock, want, bounds, hist>>

\* retrieve_token: the keyring, if the backend has one.
Retrieve(t) ==
    /\ pc[t] = "retrieve"
    /\ \/ /\ backend # "File"
          /\ up /\ keyring # Absent
          /\ raw' = [raw EXCEPT ![t] = keyring.list]
          /\ Goto(t, "refill")
          /\ UNCHANGED got
       \/ /\ backend # "File"
          /\ ~ up \/ keyring = Absent
          /\ \/ backend = "Keyring" /\ Answer(t, 0)
             \/ backend = "KeyringWithFallback" /\ Goto(t, "readFile") /\ UNCHANGED <<got, raw>>
       \/ /\ backend = "File"
          /\ Goto(t, "readFile")
          /\ UNCHANGED <<got, raw>>
    /\ UNCHANGED <<store, cache, lock, want, bounds, hist>>

\* retrieve_from_file: a file that is not there is None, one that does not parse
\* ends get with None too.
RetrieveFile(t) ==
    /\ pc[t] = "readFile"
    /\ \/ file.kind # "tokens" /\ Answer(t, 0)
       \/ /\ file.kind = "tokens"
          /\ raw' = [raw EXCEPT ![t] = file.list]
          /\ Goto(t, "refill")
          /\ UNCHANGED got
    /\ UNCHANGED <<store, cache, lock, want, bounds, hist>>

\* The cache becomes what was retrieved, under the write lock.
Refill(t) ==
    /\ pc[t] = "refill"
    /\ lock = None
    /\ cache' = raw[t]
    /\ Answer(t, Match(raw[t], want[t]))
    /\ UNCHANGED <<store, lock, want, bounds, hist>>

-----------------------------------------------------------------------------
(* The authenticator: the token is used, or a new one is obtained.         *)

\* The token is usable, or none could be obtained: the call ends.
Done(t) ==
    /\ pc[t] = "answered"
    /\ got' = [got EXCEPT ![t] = 0]
    /\ Goto(t, "idle")
    /\ UNCHANGED <<store, cache, lock, want, raw, bounds, hist>>

\* There is no token, or it has expired: the flow or a refresh gives a new one.
Renew(t) ==
    /\ pc[t] = "answered"
    /\ issued + Cardinality({u \in Tasks : pc[u] = "set"}) < MaxTokens
    /\ Goto(t, "set")
    /\ UNCHANGED <<store, cache, lock, want, raw, got, bounds, hist>>

-----------------------------------------------------------------------------
(* set.                                                                    *)

\* w is a set of scopes whose tokens a set of s drops without replacing them.
Dropped(w, s) == Covers(w, s) /\ w # s

\* The tokens of a list that do not cover s.
Keep(list, s) == {e \in list : ~ Covers(e.scopes, s)}

\* Tokens are numbered in the order in which they are set.
SetLocked(t, kept, holder) ==
    LET list == kept \cup {StoredToken(want[t], issued + 1)} IN
    /\ pc[t] = "set"
    /\ lock = None
    /\ lock' = holder
    /\ issued' = issued + 1
    /\ got' = [got EXCEPT ![t] = issued + 1]
    /\ cache' = list
    /\ raw' = [raw EXCEPT ![t] = list]
    /\ latest' = [w \in ScopeSets |-> IF Dropped(w, want[t]) THEN 0 ELSE latest[w]]
    /\ floor' = [u \in Tasks |-> IF Dropped(want[u], want[t]) THEN 0 ELSE floor[u]]
    /\ raced' = (raced \/ \E u \in Tasks : pc[u] \in {"retrieve", "readFile", "refill"})
    /\ Goto(t, "store")
    /\ UNCHANGED <<store, want, flips, restarts, keyringFailed, broken>>

\* Mutant of SetBegin: the arguments of scopes_covered_by are swapped.
SetBeginSwapped(t) ==
    SetLocked(t, {e \in cache : ~ Covers(want[t], e.scopes)}, t)

\* Mutant of SetBegin: the write lock is released before the store.
SetBeginUnlocked(t) == SetLocked(t, Keep(cache, want[t]), None)

\* The tokens that cover the scopes give way to the new one, and the list is
\* serialized, under the write lock, which stays held.
SetBegin(t) == SetLocked(t, Keep(cache, want[t]), t)

\* set returns and the lock is released; ok: with Ok.
SetEnds(t, ok) ==
    /\ lock' = None
    /\ latest' = IF ok THEN [latest EXCEPT ![want[t]] = got[t]] ELSE latest
    /\ raw' = [raw EXCEPT ![t] = {}]
    /\ got' = [got EXCEPT ![t] = 0]
    /\ Goto(t, "idle")

\* store_token: the keyring, if the backend has one and set_password succeeds, which it
\* need not when the keyring answers; the fallback is the file.
Store(t) ==
    /\ pc[t] = "store"
    /\ \/ /\ backend # "File" /\ up
          /\ keyring' = Stored(raw[t])
          /\ SetEnds(t, TRUE)
          /\ UNCHANGED keyringFailed
       \/ /\ backend = "Keyring"
          /\ SetEnds(t, FALSE)
          /\ UNCHANGED <<keyring, keyringFailed>>
       \/ /\ backend # "Keyring"
          /\ Goto(t, "truncate")
          /\ keyringFailed' = (keyringFailed \/ keyring # Absent)
          /\ UNCHANGED <<keyring, lock, latest, raw, got>>
    /\ UNCHANGED <<backend, up, file, cache, want, bounds, floor, raced, broken>>

\* tokio::fs::write opens and truncates the file, or fails to.
Truncate(t) ==
    /\ pc[t] = "truncate"
    /\ \/ /\ file' = Torn
          /\ Goto(t, "write")
          /\ UNCHANGED <<lock, latest, raw, got>>
       \/ SetEnds(t, FALSE) /\ UNCHANGED file
    /\ UNCHANGED <<backend, keyring, up, cache, want, bounds, floor, raced, keyringFailed, broken>>

\* ... and writes it, or fails to.
WriteFile(t) ==
    /\ pc[t] = "write"
    /\ \/ /\ file' = Stored(raw[t])
          /\ SetEnds(t, TRUE)
          /\ UNCHANGED broken
       \/ /\ SetEnds(t, FALSE)
          /\ broken' = TRUE
          /\ UNCHANGED file
    /\ UNCHANGED <<backend, keyring, up, cache, want, bounds, floor, raced, keyringFailed>>

-----------------------------------------------------------------------------
(* The environment.                                                        *)

\* The keyring service starts or stops, or its collection is locked.
KeyringFlips ==
    /\ flips < MaxFlips
    /\ flips' = flips + 1
    /\ up' = ~ up
    /\ keyringFailed' = (keyringFailed \/ up)
    /\ UNCHANGED <<backend, keyring, file, cache, lock, pc, want, raw, got, issued,
                   restarts, latest, floor, raced, broken>>

\* The process ends, anywhere, and is started again: new_keyring, new_file or
\* new_with_fallback with an empty cache.
Restart ==
    /\ restarts < MaxRestarts
    /\ restarts' = restarts + 1
    /\ cache' = {}
    /\ lock' = None
    /\ pc' = [t \in Tasks |-> "idle"]
    /\ raw' = [t \in Tasks |-> {}]
    /\ got' = [t \in Tasks |-> 0]
    /\ broken' = (broken \/ \E t \in Tasks : pc[t] = "write")
    /\ UNCHANGED <<store, want, issued, flips, latest, floor, raced, keyringFailed>>

Next ==
    \/ \E t \in Tasks :
        \/ \E s \in ScopeSets : Call(t, s)
        \/ GetCached(t) \/ Retrieve(t) \/ RetrieveFile(t) \/ Refill(t)
        \/ Done(t) \/ Renew(t)
        \/ SetBegin(t) \/ Store(t) \/ Truncate(t) \/ WriteFile(t)
    \/ KeyringFlips
    \/ Restart

Spec == Init /\ [][Next]_vars

-----------------------------------------------------------------------------
(* Properties.                                                             *)

\* What can make an older token come back: a get that fills the cache with what it
\* read before a set, a keyring that is lost or keeps an older list than the file, a
\* file write that breaks off.
Steady == ~ raced /\ ~ keyringFailed /\ ~ broken

\* get answers with a token at least as new as the last one stored for its scopes
\* before the call, from the cache or after a restart from the keyring or the file,
\* also when the keyring comes up only after tokens went to the file, unless a token
\* of fewer scopes has been set since (set drops every token that covers its scopes).
NoStaleToken ==
    Steady => \A t \in Tasks : pc[t] = "answered" => got[t] >= floor[t]

\* What retrieve_token would find if the process started now.
Retrieved ==
    IF backend # "File" /\ up /\ keyring # Absent THEN keyring
    ELSE IF backend # "Keyring" THEN file ELSE Absent

\* Whenever no set is under way, the token of the last successful set of each scope
\* set can be retrieved by a process that starts now: no concurrent set has stored a
\* list without it, and no store that failed has damaged it.
StoreIsNewest ==
    Steady /\ lock = None /\ (backend = "Keyring" => up) =>
        \A s \in ScopeSets : latest[s] # 0 => Match(Retrieved.list, s) >= latest[s]

-----------------------------------------------------------------------------
(***************************************************************************)
(* Inductive invariants (proved in TokenStorage_proofs).                   *)
(***************************************************************************)

Getting == {"retrieve", "readFile", "refill"}
Storing == {"store", "truncate", "write"}
Entries == [scopes : ScopeSets, token : 1..issued]
Contents == {Absent, Torn} \cup [kind : {"tokens"}, list : SUBSET Entries]

\* The types; only tokens that have been issued are anywhere, and the write lock is
\* held by the set that stores, with the newest of them.
TypeOK ==
    /\ backend \in Backends
    /\ keyring \in Contents /\ file \in Contents
    /\ cache \subseteq Entries
    /\ lock \in Tasks \cup {None}
    /\ pc \in [Tasks -> {"idle", "get", "answered", "set"} \cup Getting \cup Storing]
    /\ want \in [Tasks -> ScopeSets]
    /\ raw \in [Tasks -> SUBSET Entries]
    /\ got \in [Tasks -> 0..issued]
    /\ issued \in Nat
    /\ latest \in [ScopeSets -> 0..issued]
    /\ floor \in [Tasks -> 0..issued]
    /\ {up, raced, keyringFailed, broken} \subseteq BOOLEAN
    /\ \A t \in Tasks : pc[t] \in Storing <=> lock = t
    /\ \A t \in Tasks : pc[t] \in Storing => got[t] = issued

\* A list has the token of the last successful set of each scope set, or a newer one
\* under just these scopes, and only newer ones under more.
Newest(list) ==
    \A s \in ScopeSets : latest[s] # 0 =>
        /\ \E e \in list : e.scopes = s
        /\ \A e \in list : Covers(e.scopes, s) => e.token >= latest[s]

\* What can be retrieved is newest unless the file is being written; the keyring holds
\* nothing until it is up, and nothing when the file is read or written.
StoreInv ==
    /\ ~ up \/ backend = "File" => keyring = Absent
    /\ backend = "Keyring" => file = Absent
    /\ (\A t \in Tasks : pc[t] # "write") => Newest(Retrieved.list)
    /\ \A t \in Tasks : pc[t] \in {"readFile", "truncate", "write"} =>
                           keyring = Absent /\ backend # "Keyring"

\* The cache is newest, or still empty and nobody relies on it; a list to be stored is
\* that of the cache, with the new token; what a get has read is still newest.
CacheInv ==
    /\ Newest(cache) \/ (cache = {} /\ \A t \in Tasks : pc[t] \notin {"answered", "set"} \cup Storing)
    /\ \A t \in Tasks :
        /\ pc[t] \in Getting => lock = None
        /\ pc[t] = "refill" => Newest(raw[t])
        /\ pc[t] \in Storing =>
            /\ raw[t] = cache
            /\ StoredToken(want[t], issued) \in cache
            /\ \A e \in cache : Covers(e.scopes, want[t]) => e.token = issued
        /\ pc[t] \in {"get"} \cup Getting => floor[t] <= latest[want[t]]
        /\ pc[t] = "answered" => got[t] >= floor[t]

TokenInv == TypeOK /\ (Steady => StoreInv /\ CacheInv)
=============================================================================
