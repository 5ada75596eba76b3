--------------------------- MODULE MCSwiftStorage ---------------------------
(* Instances of SwiftStorage for TLC. *)
EXTENDS SwiftStorage

CONSTANTS t1, t2, far
=============================================================================
