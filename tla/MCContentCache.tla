--------------------------- MODULE MCContentCache ---------------------------
(***************************************************************************)
(* Instances of ContentCache for TLC.                                      *)
(***************************************************************************)
EXTENDS ContentCache

CONSTANTS t1, t2, f, g
=============================================================================
