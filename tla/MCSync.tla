------------------------------- MODULE MCSync -------------------------------
(***************************************************************************)
(* Instances of SyncQueue and SyncEngine for TLC.  They are two uses of a  *)
(* queue, so they are explored side by side: a behaviour is one of tasks   *)
(* that share a queue, with the engine as it is in the beginning, or one   *)
(* of the engine, which has its queue to itself.                           *)
(***************************************************************************)
EXTENDS SyncEngine, SyncQueue

CONSTANTS t1, t2, f, g, d

VARIABLE part       \* the specification that this behaviour is of

engineVars == <<cloudVars, local, pc, op, faults, attempts, listVars, base>>
taskVars == <<held, nextId, clock, history>>

MCInit == part \in {"queue", "engine"} /\ QueueInit /\ Init

MCNext ==
    /\ \/ part = "queue" /\ QueueNext /\ UNCHANGED engineVars
       \/ part = "engine" /\ Next /\ UNCHANGED taskVars
    /\ UNCHANGED part

MCSpec == MCInit /\ [][MCNext]_<<part, vars, taskVars>> /\ WF_vars(part = "engine" /\ Task)
=============================================================================
