--------------------------- MODULE MCMetadataSync ---------------------------
(***************************************************************************)
(* Instances of MetadataSync for TLC: a is a root file, n a nested one, m  *)
(* one whose metadata are malformed.                                       *)
(***************************************************************************)
EXTENDS MetadataSync

CONSTANTS a, n, m
=============================================================================
