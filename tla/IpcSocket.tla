----------------------------- MODULE IpcSocket ------------------------------
(***************************************************************************)
(* The socket file of cloudsync-ipc (server.rs): daemons that bind it with *)
(* IpcServer::bind, serve, drop their server or are killed.  bind is a     *)
(* sequence of calls on a path that all daemons share, so starts, drops    *)
(* and kills interleave between the calls.                                 *)
(***************************************************************************)
EXTENDS Integers

CONSTANTS Daemons,
          MaxStarts     \* bound: calls of bind

ASSUME SocketAssumption ==
    /\ Daemons # {}
    /\ MaxStarts \in Nat

VARIABLES
    path,       \* the socket at socket_path, by the number of its bind; 0: no file
    listener,   \* per daemon, the socket it listens on; 0: none
    pc,         \* where each daemon is
    starts, sockets,
    \* history variables, read by properties only:
    alone,      \* no other daemon was up when this one called bind
    overlapped  \* a daemon has called bind while another one was in it

socketVars == <<path, listener, pc, starts, sockets, alone, overlapped>>

Binding == {"probe", "remove", "bind", "perms"}
Up == {"perms", "serving", "dropping", "unlink", "close"}

SocketTypeOK ==
    /\ path \in Nat
    /\ listener \in [Daemons -> Nat]
    /\ pc \in [Daemons -> {"down", "failed"} \cup Binding \cup Up]
    /\ starts \in Nat
    /\ sockets \in Nat
    /\ alone \in [Daemons -> BOOLEAN]
    /\ overlapped \in BOOLEAN

SocketInit ==
    /\ path = 0
    /\ listener = [d \in Daemons |-> 0]
    /\ pc = [d \in Daemons |-> "down"]
    /\ starts = 0
    /\ sockets = 0
    /\ alone = [d \in Daemons |-> FALSE]
    /\ overlapped = FALSE

Goto(d, l) == pc' = [pc EXCEPT ![d] = l]

\* What connecting to socket_path reaches: the daemon d, or nobody (no file,
\* or a file that nobody listens on).
Connects(d) == path # 0 /\ listener[d] = path
Answered == \E d \in Daemons : Connects(d)

-----------------------------------------------------------------------------
(* bind, call by call.                                                     *)

\* socket_path.exists()
Start(d) ==
    /\ pc[d] \in {"down", "failed"}
    /\ starts < MaxStarts
    /\ starts' = starts + 1
    /\ alone' = [alone EXCEPT ![d] = \A e \in Daemons : pc[e] \in {"down", "failed"}]
    /\ overlapped' = (overlapped \/ \E e \in Daemons : pc[e] \in Binding)
    /\ Goto(d, IF path # 0 THEN "probe" ELSE "bind")
    /\ UNCHANGED <<path, listener, sockets>>

\* Mutant of Probe: any socket file is taken to be stale.
ProbeTakesAllStale(d) ==
    /\ pc[d] = "probe"
    /\ Goto(d, "remove")
    /\ UNCHANGED <<path, listener, starts, sockets, alone, overlapped>>

\* Mutant of Probe: any socket file is taken to be in use.
ProbeTakesAllLive(d) ==
    /\ pc[d] = "probe"
    /\ Goto(d, "failed")
    /\ UNCHANGED <<path, listener, starts, sockets, alone, overlapped>>

\* UnixStream::connect: Ok is AddrInUse, every error means a stale file.
Probe(d) ==
    /\ pc[d] = "probe"
    /\ Goto(d, IF Answered THEN "failed" ELSE "remove")
    /\ UNCHANGED <<path, listener, starts, sockets, alone, overlapped>>

\* remove_file; fails if the file has gone in the meantime.
Remove(d) ==
    /\ pc[d] = "remove"
    /\ path' = 0
    /\ Goto(d, IF path = 0 THEN "failed" ELSE "bind")
    /\ UNCHANGED <<listener, starts, sockets, alone, overlapped>>

\* UnixListener::bind, which fails if the path exists again.
Bind(d) ==
    /\ pc[d] = "bind"
    /\ \/ /\ path = 0
          /\ sockets' = sockets + 1
          /\ path' = sockets + 1
          /\ listener' = [listener EXCEPT ![d] = sockets + 1]
          /\ Goto(d, "perms")
       \/ /\ path # 0
          /\ Goto(d, "failed")
          /\ UNCHANGED <<path, listener, sockets>>
    /\ UNCHANGED <<starts, alone, overlapped>>

\* set_permissions, on whatever file is at the path; if there is none, bind
\* fails and the listener is closed (there is no IpcServer to drop yet).
Perms(d) ==
    /\ pc[d] = "perms"
    /\ Goto(d, IF path # 0 THEN "serving" ELSE "failed")
    /\ listener' = [listener EXCEPT ![d] = IF path # 0 THEN @ ELSE 0]
    /\ UNCHANGED <<path, starts, sockets, alone, overlapped>>

-----------------------------------------------------------------------------
(* The server.                                                             *)

\* run returns: shutdown was called, or accept failed.  The server is dropped.
RunEnds(d) ==
    /\ pc[d] = "serving"
    /\ Goto(d, "dropping")
    /\ UNCHANGED <<path, listener, starts, sockets, alone, overlapped>>

\* drop: socket_path.exists()
DropCheck(d) ==
    /\ pc[d] = "dropping"
    /\ Goto(d, IF path # 0 THEN "unlink" ELSE "close")
    /\ UNCHANGED <<path, listener, starts, sockets, alone, overlapped>>

\* drop: remove_file, of whatever is at the path; an error is ignored.
DropUnlink(d) ==
    /\ pc[d] = "unlink"
    /\ path' = 0
    /\ Goto(d, "close")
    /\ UNCHANGED <<listener, starts, sockets, alone, overlapped>>

\* The fields are dropped after drop has run: the listener is closed last.
DropClose(d) ==
    /\ pc[d] = "close"
    /\ listener' = [listener EXCEPT ![d] = 0]
    /\ Goto(d, "down")
    /\ UNCHANGED <<path, starts, sockets, alone, overlapped>>

\* The daemon is killed, anywhere: its socket closes, the file stays.
KillDaemon(d) ==
    /\ pc[d] # "down"
    /\ Goto(d, "down")
    /\ listener' = [listener EXCEPT ![d] = 0]
    /\ UNCHANGED <<path, starts, sockets, alone, overlapped>>

SocketNext ==
    \E d \in Daemons :
        \/ Start(d) \/ Probe(d) \/ Remove(d) \/ Bind(d) \/ Perms(d)
        \/ RunEnds(d) \/ DropCheck(d) \/ DropUnlink(d) \/ DropClose(d)
        \/ KillDaemon(d)

SocketSpec == SocketInit /\ [][SocketNext]_socketVars

-----------------------------------------------------------------------------
(* Properties.                                                             *)

\* A server that serves is the one clients reach, so there is only one ("If an
\* active server is already bound, returns an `AddrInUse` IO error"): its file is
\* neither removed nor replaced by other daemons that start, stop or are killed,
\* as long as no two calls of bind have overlapped.
Reachable == ~ overlapped => \A d \in Daemons : pc[d] = "serving" => Connects(d)

\* A daemon that starts while no other is up gets its server, whatever file
\* killed daemons have left at the path, if no other daemon starts meanwhile.
StaleNeverBlocks == ~ overlapped => \A d \in Daemons : pc[d] = "failed" => ~ alone[d]

\* Daemons that start at the same time may make each other's bind fail, at any
\* of its calls, but they never all end up without a server.
NotAllFail == \E d \in Daemons : pc[d] # "failed"

-----------------------------------------------------------------------------
(***************************************************************************)
(* Inductive invariants (proved in Ipc_proofs).                            *)
(***************************************************************************)

\* Sockets are numbered as they are bound, and each is listened on by the
\* daemon that bound it only.
SocketInv ==
    /\ SocketTypeOK
    /\ path <= sockets
    /\ \A d \in Daemons : listener[d] <= sockets
    /\ \A d \in Daemons : pc[d] \in Up <=> listener[d] # 0
    /\ \A d, e \in Daemons : listener[d] = listener[e] /\ listener[d] # 0 => d = e

\* However starts race: whoever left the path empty, and whoever put a file
\* there, is in a place from where it does not fail while the path is so.
RaceInv ==
    /\ SocketInv
    /\ path = 0 => \E d \in Daemons : pc[d] \in {"down", "bind", "close"}
    /\ path # 0 => \E d \in Daemons : pc[d] \in
                     {"down", "probe", "remove", "perms", "serving", "dropping", "unlink"}
    /\ \A d \in Daemons : pc[d] = "close" => path # listener[d]

\* While no two calls of bind have overlapped: until it unlinks its file, a
\* server's file is at the path; what bind found out about the path stays true up
\* to the call that uses it; who was alone at its start stays so until it serves.
Serial ==
    /\ \A d, e \in Daemons : pc[d] \in Binding /\ pc[e] \in Binding => d = e
    /\ \A d \in Daemons :
        /\ pc[d] \in {"perms", "serving", "dropping", "unlink"} => path = listener[d]
        /\ pc[d] = "remove" => ~ Answered
        /\ pc[d] = "bind" => path = 0
        /\ alone[d] /\ pc[d] \in Binding =>
             \A e \in Daemons : e # d => pc[e] \in {"down", "failed"}
        /\ alone[d] /\ pc[d] \in {"probe", "remove"} => path # 0
        /\ pc[d] = "failed" => ~ alone[d]

SerialInv == SocketInv /\ (~ overlapped => Serial)
=============================================================================
