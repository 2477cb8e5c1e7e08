------------------------------- MODULE Schema -------------------------------
(***************************************************************************)
(* What the migration runner of cloudsync-db promises of a database file   *)
(* that several processes open with lists of migrations 1..n of different  *)
(* lengths n: the schema changes only by whole lists.  Each change brings  *)
(* the version to the end of somebody's list, follows all the migrations   *)
(* that come before, and never repeats a migration that cannot be          *)
(* repeated.  The version may fall back to the end of a shorter list; the  *)
(* tables never go.                                                        *)
(***************************************************************************)
EXTENDS Integers

CONSTANTS Targets,      \* the lengths of the lists
          Once          \* migrations that fail when applied a second time

VARIABLES version, tables

Init == version = 0 /\ tables = {}

Migrate(lo, hi) ==
    /\ 1..lo - 1 \subseteq tables
    /\ lo..hi \cap tables \cap Once = {}
    /\ version' = hi
    /\ tables' = tables \cup lo..hi

Next == \E hi \in Targets : \E lo \in 1..hi : Migrate(lo, hi)

Spec == Init /\ [][Next]_<<version, tables>>
=============================================================================
