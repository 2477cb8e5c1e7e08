------------------------------- MODULE MCIpc --------------------------------
(***************************************************************************)
(* Instances of IpcSocket and IpcConnection for TLC.  The two share no     *)
(* variable, so they are explored side by side: a behaviour is one of the  *)
(* socket's, with the connection as it is in the beginning, or one of the  *)
(* connection's.                                                           *)
(***************************************************************************)
EXTENDS IpcConnection, IpcSocket

CONSTANTS d1, d2, d3

VARIABLE part       \* the specification that this behaviour is of

MCInit == part \in {"socket", "connection"} /\ SocketInit /\ Init

MCNext ==
    /\ \/ part = "socket" /\ SocketNext /\ UNCHANGED vars
       \/ part = "connection" /\ Next /\ UNCHANGED socketVars
    /\ UNCHANGED part

MCSpec ==
    /\ MCInit /\ [][MCNext]_<<part, vars, socketVars>>
    /\ WF_vars(part = "connection" /\ ServerStep)
    /\ SF_vars(part = "connection" /\ SeeShutdown)
=============================================================================
