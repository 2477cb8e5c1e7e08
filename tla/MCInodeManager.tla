--------------------------- MODULE MCInodeManager ---------------------------
(* Instances of InodeManager for TLC.                                      *)
EXTENDS InodeManager

CONSTANTS m1, m2, f, g
=============================================================================
