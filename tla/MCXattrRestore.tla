--------------------------- MODULE MCXattrRestore ---------------------------
(* Instances of XattrRestore for TLC. *)
EXTENDS XattrRestore

CONSTANTS f1, f2, f3
=============================================================================
